---------------------------- MODULE Spec2Model ----------------------------
(***************************************************************************)
(* A model of spotify_rpa: the TrackInfo value (models.py), the controller *)
(* factory and facade (controller.py), the shared automation procedures    *)
(* (base.py) and the two backends (macos.py, windows.py).                  *)
(*                                                                         *)
(* Text is modelled as a sequence of one-character strings, so that        *)
(* split, lower, int() and the window-title pattern are computed the way   *)
(* the code computes them.  Time is in milliseconds (0.5 s is 500).        *)
(***************************************************************************)
EXTENDS Integers, Sequences, FiniteSets, TLC

VARIABLES
    track,      \* the TrackInfo whose derived properties are read
    result,     \* outcome of the last operation: what it returned or raised
    calls,      \* what the last operation did: method entries, channel calls, sleeps
    ctl,        \* the controller object (SpotifyControllerBase subclass), or NoObj
    facade,     \* the SpotifyRPA facade object, or NoObj
    app,        \* the external Spotify application as the automation channel sees it
    frame,      \* verify_playback's call frame: where it is, its locals, its outcome
    clock       \* what time.time() reads, in milliseconds

vars == <<track, result, calls, ctl, facade, app, frame, clock>>

\* ------------------------------------------------------------------ bounds

MaxUrlFields == 4
MaxFailAt == 16
MaxFacadeFailAt == 1
MaxPollTime == 50
MaxOversleep == 50

\* -------------------------------------------------------------------- text

SPOTIFY == <<"s", "p", "o", "t", "i", "f", "y">>
TRACK == <<"t", "r", "a", "c", "k">>
WEB_PREFIX == <<"h", "t", "t", "p", "s", ":", "/", "/", "o", "p", "e", "n", ".",
                "s", "p", "o", "t", "i", "f", "y", ".", "c", "o", "m", "/">>

\* s[from..] for a 1-based index
Drop(s, n) == SubSeq(s, n + 1, Len(s))

StartsWith(s, p) == Len(s) >= Len(p) /\ SubSeq(s, 1, Len(p)) = p

\* str.split(sep): the fields between the leftmost non-overlapping separators
RECURSIVE SplitAcc(_, _, _, _)
SplitAcc(s, sep, cur, acc) ==
    IF s = <<>> THEN Append(acc, cur)
    ELSE IF StartsWith(s, sep)
         THEN SplitAcc(Drop(s, Len(sep)), sep, <<>>, Append(acc, cur))
         ELSE SplitAcc(Tail(s), sep, Append(cur, Head(s)), acc)

Split(s, sep) == SplitAcc(s, sep, <<>>, <<>>)

\* sep.join(fields)
RECURSIVE Join(_, _)
Join(fields, sep) ==
    IF fields = <<>> THEN <<>>
    ELSE IF Len(fields) = 1 THEN fields[1]
         ELSE fields[1] \o sep \o Join(Tail(fields), sep)

UPPER == <<"A", "B", "C", "D", "E", "F", "G", "H", "I", "J", "K", "L", "M",
           "N", "O", "P", "Q", "R", "S", "T", "U", "V", "W", "X", "Y", "Z">>
LOWER == <<"a", "b", "c", "d", "e", "f", "g", "h", "i", "j", "k", "l", "m",
           "n", "o", "p", "q", "r", "s", "t", "u", "v", "w", "x", "y", "z">>

LowerChar(c) ==
    IF \E i \in 1..Len(UPPER) : UPPER[i] = c
    THEN LOWER[CHOOSE i \in 1..Len(UPPER) : UPPER[i] = c]
    ELSE c

\* str.lower()
Lower(s) == [i \in 1..Len(s) |-> LowerChar(s[i])]

IsSpace(c) == c \in {" ", "\n", "\t"}

RECURSIVE LStrip(_)
LStrip(s) == IF s # <<>> /\ IsSpace(Head(s)) THEN LStrip(Tail(s)) ELSE s

RECURSIVE RStrip(_)
RStrip(s) ==
    IF s # <<>> /\ IsSpace(s[Len(s)]) THEN RStrip(SubSeq(s, 1, Len(s) - 1)) ELSE s

\* str.strip()
Strip(s) == RStrip(LStrip(s))

\* sub in s
Contains(s, sub) ==
    \E i \in 0..(Len(s) - Len(sub)) : SubSeq(s, i + 1, i + Len(sub)) = sub

MACOS == <<"m", "a", "c", "o", "s">>
WINDOWS == <<"w", "i", "n", "d", "o", "w", "s">>
LINUX == <<"l", "i", "n", "u", "x">>
DARWIN == <<"d", "a", "r", "w", "i", "n">>

\* ------------------------------------------------------------------ values

NoErr == "none"
NoObj == [kind |-> "none"]

None == [t |-> "none"]
Str(s) == [t |-> "str", s |-> s]
Bool(b) == [t |-> "bool", b |-> b]
Int_(n) == [t |-> "int", n |-> n]

\* --------------------------------------------------------------- TrackInfo

TrackInfo(name, artist, album, duration_ms, spotify_url) ==
    [name |-> name, artist |-> artist, album |-> album,
     duration_ms |-> duration_ms, spotify_url |-> spotify_url]

web_url_any_scheme(self) ==
    IF self.spotify_url = <<>> THEN None
    ELSE LET parts == Split(self.spotify_url, <<":">>) IN
         IF Len(parts) = 3
         THEN Str(WEB_PREFIX \o parts[2] \o <<"/">> \o parts[3])
         ELSE None

\* TrackInfo.web_url
web_url(self) ==
    IF self.spotify_url = <<>> THEN None
    ELSE LET parts == Split(self.spotify_url, <<":">>) IN
         IF Len(parts) = 3 /\ parts[1] = SPOTIFY
         THEN LET item_type == parts[2]
                  item_id == parts[3]
              IN Str(WEB_PREFIX \o item_type \o <<"/">> \o item_id)
         ELSE None

RECURSIVE GCD(_, _)
\* a float, kept as the exact quotient num/den in lowest terms
GCD(a, b) == IF b = 0 THEN a ELSE GCD(b, a % b)

\* a / b on two ints
TrueDiv(a, b) ==
    LET g == GCD(a, b) IN [t |-> "float", num |-> a \div g, den |-> b \div g]

duration_seconds_floor(self) == TrueDiv(self.duration_ms \div 1000, 1)

\* TrackInfo.duration_seconds
duration_seconds(self) == TrueDiv(self.duration_ms, 1000)

\* ------------------------------------------------- inputs of the TrackInfo spec

Durations == {0, 1, 999, 1500, 180000}

UrlFieldChoices ==
    {<<>>, SPOTIFY, TRACK, <<"a", "1">>, <<"S", "p", "o", "t", "i", "f", "y">>}

FieldTuples(n) == [1..n -> UrlFieldChoices]

\* every text made of 1..MaxUrlFields of the fields above joined by ":"
UrlInputs ==
    UNION {{Join(fs, <<":">>) : fs \in FieldTuples(n)} : n \in 1..MaxUrlFields}

TrackInputs ==
    {TrackInfo(n, <<"B">>, <<"C">>, d, u) :
        n \in {<<"A">>, <<>>}, d \in Durations, u \in UrlInputs}

\* the outcome of an operation: a returned value, or a raised exception class
\* with its message; whether a channel call failed in transport on the way; and
\* the application as it was when the operation began
Outcome(op, args, err, msg, val, failed, before) ==
    [op |-> op, args |-> args, err |-> err, msg |-> msg, val |-> val,
     failed |-> failed, before |-> before]

Returned(op, args, val) == Outcome(op, args, NoErr, <<>>, val, FALSE, NoObj)

\* verify_playback is not being called
NoFrame == [pc |-> "none"]

\* no operation is in progress and no result is waiting for the caller
Idle == Returned("idle", <<>>, None)

InitTrack ==
    /\ track \in TrackInputs
    /\ result = Idle
    /\ calls = <<>>
    /\ ctl = NoObj
    /\ facade = NoObj
    /\ app = NoObj
    /\ frame = NoFrame
    /\ clock = 0

\* reading track.web_url
ReadWebUrl ==
    /\ result' = Returned("web_url", <<>>, web_url(track))
    /\ UNCHANGED <<track, calls, ctl, facade, app, frame, clock>>

\* reading track.duration_seconds
ReadDurationSeconds ==
    /\ result' = Returned("duration_seconds", <<>>, duration_seconds(track))
    /\ UNCHANGED <<track, calls, ctl, facade, app, frame, clock>>

NextTrack == ReadWebUrl \/ ReadDurationSeconds

SpecTrack == InitTrack /\ [][NextTrack]_vars

\* -------------------------------------------------------------- exceptions

\* the base class of each exception class (exceptions.py, and Python's own)
BaseOf(cls) ==
    CASE cls = "SpotifyRPAError" -> "Exception"
      [] cls = "PlatformNotSupportedError" -> "SpotifyRPAError"
      [] cls = "AutomationError" -> "SpotifyRPAError"
      [] cls = "AppleScriptError" -> "AutomationError"
      [] cls = "SpotifyNotRunningError" -> "SpotifyRPAError"
      [] OTHER -> "Exception"

RECURSIVE IsInstance(_, _)
IsInstance(cls, base) ==
    \/ cls = base
    \/ cls # "Exception" /\ cls # NoErr /\ IsInstance(BaseOf(cls), base)

\* ------------------------------------------------ construction (controller.py)

DEFAULT_LAUNCH_DELAY == 2000
DEFAULT_UI_DELAY == 500
DEFAULT_SEARCH_DELAY == 1500
DEFAULT_KEYSTROKE_DELAY == 100

MAC_CLASS == "MacOSSpotifyController"
WIN_CLASS == "WindowsSpotifyController"

\* the object a class's __new__ hands to __init__: no attribute set yet
NewObject(cls) == [kind |-> "controller", cls |-> cls]

\* self.<attribute> = value
SetAttr(self, attr, value) ==
    [a \in DOMAIN self \cup {attr} |-> IF a = attr THEN value ELSE self[a]]

HasAttr(self, attr) == attr \in DOMAIN self

\* SpotifyControllerBase.__init__
BaseInit(self, debug) ==
    SetAttr(SetAttr(self, "debug", debug), "_ui_delay", DEFAULT_UI_DELAY)

\* the outcome of running a constructor: the object, or the exception and no object
Built(self) == [obj |-> self, err |-> NoErr, msg |-> <<>>]
Failed(cls, msg) == [obj |-> NoObj, err |-> cls, msg |-> msg]

\* MacOSSpotifyController(debug): the class defines no __init__ of its own
MacInit(debug) == Built(BaseInit(NewObject(MAC_CLASS), debug))

WindowsInit_unchecked(debug, WINDOWS_AVAILABLE) ==
    LET self == BaseInit(NewObject(WIN_CLASS), debug) IN
    IF ~WINDOWS_AVAILABLE THEN Built(self)
    ELSE Built(SetAttr(self, "_windows", "Windows()"))

\* WindowsSpotifyController.__init__
WindowsInit(debug, WINDOWS_AVAILABLE) ==
    LET self == BaseInit(NewObject(WIN_CLASS), debug) IN
    IF ~WINDOWS_AVAILABLE
    THEN Failed("AutomationError",
                <<"rpaframework-windows is not installed. ",
                  "Install with: pip install rpaframework-windows">>)
    ELSE Built(SetAttr(self, "_windows", "Windows()"))

\* platform.system() on the hosts considered
Systems ==
    {<<"D", "a", "r", "w", "i", "n">>, <<"W", "i", "n", "d", "o", "w", "s">>,
     <<"L", "i", "n", "u", "x">>, <<"F", "r", "e", "e", "B", "S", "D">>, <<>>,
     <<"d", "a", "r", "w", "i", "n">>, <<"L", "I", "N", "U", "X">>,
     <<"J", "a", "v", "a">>}

get_platform_case_sensitive(platform_system) ==
    LET system == platform_system IN
    IF system = DARWIN THEN MACOS
    ELSE IF system = <<"w", "i", "n", "d", "o", "w", "s">> THEN WINDOWS
    ELSE IF system = <<"l", "i", "n", "u", "x">> THEN LINUX
    ELSE system

\* get_platform
get_platform(platform_system) ==
    LET system == Lower(platform_system) IN
    IF system = DARWIN THEN MACOS
    ELSE IF system = <<"w", "i", "n", "d", "o", "w", "s">> THEN WINDOWS
    ELSE IF system = <<"l", "i", "n", "u", "x">> THEN LINUX
    ELSE system

PlatformMessage(platform_name) ==
    <<"P", "l", "a", "t", "f", "o", "r", "m", " ", "'">> \o platform_name
    \o <<"'", " ", "i", "s", " ", "n", "o", "t", " ", "s", "u", "p", "p", "o",
         "r", "t", "e", "d", ".", " ">>
    \o <<"S", "u", "p", "p", "o", "r", "t", "e", "d", " ", "p", "l", "a", "t",
         "f", "o", "r", "m", "s", ":", " ", "m", "a", "c", "O", "S", ",", " ",
         "W", "i", "n", "d", "o", "w", "s", " ", "(", "s", "t", "u", "b", ")">>

create_spotify_controller_fallback(platform_name, debug, WINDOWS_AVAILABLE) ==
    IF platform_name = WINDOWS
    THEN WindowsInit(debug, WINDOWS_AVAILABLE)
    ELSE MacInit(debug)

\* create_spotify_controller
create_spotify_controller(platform_name, debug, WINDOWS_AVAILABLE) ==
    IF platform_name = MACOS
    THEN MacInit(debug)
    ELSE IF platform_name = WINDOWS
         THEN WindowsInit(debug, WINDOWS_AVAILABLE)
         ELSE Failed("PlatformNotSupportedError", PlatformMessage(platform_name))

\* SpotifyRPA.__init__: the facade and the controller it builds
SpotifyRPA_init(platform_system, debug, WINDOWS_AVAILABLE) ==
    LET s0 == [kind |-> "facade"]
        s1 == SetAttr(s0, "platform", get_platform(platform_system))
        s2 == SetAttr(s1, "debug", debug)
        made == create_spotify_controller(s2.platform, debug, WINDOWS_AVAILABLE)
    IN IF made.err # NoErr
       THEN [obj |-> NoObj, controller |-> NoObj, err |-> made.err, msg |-> made.msg]
       ELSE [obj |-> SetAttr(s2, "_controller", "ctl"), controller |-> made.obj,
             err |-> NoErr, msg |-> <<>>]

\* the object a reference held in an attribute points to
Deref(ref) == IF ref = "ctl" THEN ctl ELSE NoObj

SpotifyRPA_getattr_rebuilding(self, name) ==
    [ref |-> "new", obj |-> create_spotify_controller(self.platform, self.debug, TRUE).obj,
     name |-> name]

\* SpotifyRPA.__getattr__(name), reached for every name the facade has no
\* attribute of its own for: the method of that name bound to self._controller
SpotifyRPA_getattr(self, name) ==
    [ref |-> self._controller, obj |-> Deref(self._controller), name |-> name]

\* the platform tags a caller may pass
Tags ==
    {MACOS, WINDOWS, LINUX, <<"f", "r", "e", "e", "b", "s", "d">>, <<>>,
     <<"W", "i", "n", "d", "o", "w", "s">>, DARWIN}

\* ----------------------------------------------------- the external application

PLAYING == <<"p", "l", "a", "y", "i", "n", "g">>
PAUSED == <<"p", "a", "u", "s", "e", "d">>
STOPPED == <<"s", "t", "o", "p", "p", "e", "d">>

\* What the automation channel can observe of the application: whether its
\* process/window exists, and the title of its window (Backend B reads it).
IDLE_TITLES ==
    {<<"S", "p", "o", "t", "i", "f", "y">>,
     <<"S", "p", "o", "t", "i", "f", "y", " ", "P", "r", "e", "m", "i", "u", "m">>,
     <<"S", "p", "o", "t", "i", "f", "y", " ", "F", "r", "e", "e">>}

SEP == <<" ", "-", " ">>
TITLE_TAIL == <<" ", "-", " ", "S", "p", "o", "t", "i", "f", "y">>

Titles ==
    IDLE_TITLES \cup
    {<<>>,
     <<"A">> \o SEP \o <<"T">> \o TITLE_TAIL,
     <<"A">> \o SEP \o <<"T">>,
     <<"A">> \o SEP \o <<"T">> \o SEP \o <<"U">> \o TITLE_TAIL,
     <<"A">> \o SEP \o <<"T">> \o TITLE_TAIL \o <<" ", "F", "r", "e", "e">>}

AppStates == [running : BOOLEAN, title : Titles]

\* What osascript prints for 'player state as string'
PlayerOutputs ==
    {PLAYING, PAUSED, STOPPED, <<"P", "l", "a", "y", "i", "n", "g">>,
     <<"k", "P", "S", "P">>, <<>>}

BAR == <<"|", "|", "|">>
URI == SPOTIFY \o <<":">> \o TRACK \o <<":", "a", "1">>

\* What osascript prints for the current-track script
TrackOutputs ==
    {<<"S", "T", "O", "P", "P", "E", "D">>,
     Join(<<<<"N">>, <<"A">>, <<"L">>, <<"1", "2">>, URI>>, BAR),
     Join(<<<<"N">>, <<"A">>, <<"L">>, <<"1", "2">>>>, BAR),
     Join(<<<<"N">>, <<"A">>, <<"L">>, <<"x">>, URI>>, BAR),
     Join(<<<<"N">>, <<"A">>, <<"L">>, <<>>, URI>>, BAR),
     Join(<<<<"N">>, <<"A">>, <<"L">>, <<"1", "2">>, URI, <<"Z">>>>, BAR),
     <<>>}

\* What the environment decides during one operation: which channel call (the
\* failAt-th; 0 for none) fails in transport, whether a launch request gets the
\* application running, and the text osascript prints for a query.
Envs(outputs) ==
    [failAt : 0..MaxFailAt, launchWorks : BOOLEAN, stdout : outputs]

NoOutput == {<<>>}

\* ------------------------------------------------------------ running a method

\* The progress of one operation: what it did so far, how many channel calls it
\* made, the exception in flight (if any), the value of the last call, the
\* application, and whether a channel call failed in transport.
Start(a) ==
    [trace |-> <<>>, n |-> 0, err |-> NoErr, msg |-> <<>>, val |-> None,
     app |-> a, failed |-> FALSE]

Live(st) == st.err = NoErr

Ev(ev, name, s, n, mods) == [ev |-> ev, name |-> name, s |-> s, n |-> n, mods |-> mods]

Log(st, e) == IF Live(st) THEN [st EXCEPT !.trace = Append(@, e)] ELSE st

\* entering a method of the controller
Enter(st, name) == Log(st, Ev("call", name, <<>>, 0, {}))
EnterWith(st, name, s, n) == Log(st, Ev("call", name, s, n, {}))

\* time.sleep(ms)
Sleep(st, ms) == Log(st, Ev("sleep", "sleep", <<>>, ms, {}))

\* raise cls(msg)
Raise(st, cls, msg) == IF Live(st) THEN [st EXCEPT !.err = cls, !.msg = msg] ELSE st

\* return v
Return(st, v) == IF Live(st) THEN [st EXCEPT !.val = v] ELSE st

\* One statement after another: the rest of the method, F, runs from where the
\* statement ended, unless the statement raised.
Then(st, F(_)) == CHOOSE r \in {IF Live(s) THEN F(s) ELSE s : s \in {st}} : TRUE

\* ------------------------------------------------------- Backend A: osascript

Script(cmd, s, n, mods) == [cmd |-> cmd, s |-> s, n |-> n, mods |-> mods]

\* what the script prints
MacStdout(a, script, env) ==
    IF script.cmd = "processes contains Spotify"
    THEN (IF a.running THEN <<"t", "r", "u", "e">> ELSE <<"f", "a", "l", "s", "e">>)
         \o <<"\n">>
    ELSE IF script.cmd \in {"player state as string", "current track record",
                            "sound volume", "player position", "shuffling",
                            "repeating"}
         THEN env.stdout \o <<"\n">>
         ELSE <<>>

\* what the script does to the application
MacEffect(a, script, env) ==
    IF script.cmd = "activate" THEN [a EXCEPT !.running = @ \/ env.launchWorks]
    ELSE IF script.cmd = "quit" THEN [a EXCEPT !.running = FALSE]
    ELSE a

APPLESCRIPT_FAILED ==
    <<"A", "p", "p", "l", "e", "S", "c", "r", "i", "p", "t", " ", "f", "a", "i",
      "l", "e", "d", ":", " ">>
STDERR == <<"e", "x", "e", "c", "u", "t", "i", "o", "n", " ", "e", "r", "r", "o", "r">>

\* MacOSSpotifyController._run_applescript
\* a failed script is run a second time before the error is raised
run_applescript_retrying(self, env, st, script) ==
    IF ~Live(st) THEN st
    ELSE LET s1 == IF self.debug THEN Log(st, Ev("print", "[AppleScript]", <<>>, 0, {}))
                   ELSE st
             s2 == [Log(s1, Ev("chan", script.cmd, script.s, script.n, script.mods))
                        EXCEPT !.n = @ + 1]
         IN IF s2.n = env.failAt
            THEN Raise([Log(s2, Ev("chan", script.cmd, script.s, script.n, script.mods))
                            EXCEPT !.failed = TRUE],
                       "AppleScriptError", APPLESCRIPT_FAILED \o STDERR)
            ELSE [s2 EXCEPT !.val = Str(Strip(MacStdout(s2.app, script, env))),
                            !.app = MacEffect(s2.app, script, env)]

\* _run_applescript
run_applescript(self, env, st, script) ==
    IF ~Live(st) THEN st
    ELSE LET s1 == IF self.debug THEN Log(st, Ev("print", "[AppleScript]", <<>>, 0, {}))
                   ELSE st
             s2 == [Log(s1, Ev("chan", script.cmd, script.s, script.n, script.mods))
                        EXCEPT !.n = @ + 1]
         IN IF s2.n = env.failAt
            THEN Raise([s2 EXCEPT !.failed = TRUE], "AppleScriptError",
                       APPLESCRIPT_FAILED \o STDERR)
            ELSE [s2 EXCEPT !.val = Str(Strip(MacStdout(s2.app, script, env))),
                            !.app = MacEffect(s2.app, script, env)]

\* ------------------------------------------------------ Backend B: RPA.Windows

\* what the call does to the application
WinEffect(a, method, env) ==
    IF method = "windows_run" THEN [a EXCEPT !.running = @ \/ env.launchWorks]
    ELSE IF method = "close_current_window" THEN [a EXCEPT !.running = FALSE]
    ELSE a

\* self._windows.<method>(s): the library raises when the call fails in
\* transport, and when it looks for the application's window and finds none
WindowsCall(self, env, st, method, s) ==
    IF ~Live(st) THEN st
    ELSE LET s1 == [Log(st, Ev("chan", method, s, 0, {})) EXCEPT !.n = @ + 1] IN
         IF s1.n = env.failAt
         THEN Raise([s1 EXCEPT !.failed = TRUE], "COMError", <<"transport failure">>)
         ELSE IF method \in {"control_window", "get_element"} /\ ~s1.app.running
              THEN Raise(s1, "ElementNotFound", <<"window not found">>)
              ELSE [s1 EXCEPT !.val = IF method = "get_element"
                                      THEN Str(s1.app.title) ELSE None,
                              !.app = WinEffect(s1.app, method, env)]

\* --------------------------------------------------------- Python built-ins

DIGITS == <<"0", "1", "2", "3", "4", "5", "6", "7", "8", "9">>
IsDigit(c) == \E i \in 1..Len(DIGITS) : DIGITS[i] = c
DigitValue(c) == (CHOOSE i \in 1..Len(DIGITS) : DIGITS[i] = c) - 1

Unsigned(s) == IF s # <<>> /\ s[1] \in {"+", "-"} THEN Tail(s) ELSE s

\* int(text) succeeds: an optional sign and decimal digits, blanks around ignored
IsIntText(text) ==
    LET body == Unsigned(Strip(text)) IN
    body # <<>> /\ \A i \in 1..Len(body) : IsDigit(body[i])

RECURSIVE DigitsValue(_, _)
DigitsValue(body, acc) ==
    IF body = <<>> THEN acc
    ELSE DigitsValue(Tail(body), 10 * acc + DigitValue(Head(body)))

\* int(text), where it succeeds
IntOf(text) ==
    LET t == Strip(text)
        v == DigitsValue(Unsigned(t), 0)
    IN IF t[1] = "-" THEN 0 - v ELSE v

\* float(text) succeeds: an optional sign, digits with at most one point
IsFloatText(text) ==
    LET body == Unsigned(Strip(text))
        points == {i \in 1..Len(body) : body[i] = "."}
    IN /\ Cardinality(points) <= 1
       /\ \E i \in 1..Len(body) : IsDigit(body[i])
       /\ \A i \in 1..Len(body) : IsDigit(body[i]) \/ body[i] = "."

\* x or y, for an optional number x
OrElse(x, y) == IF x.t = "none" \/ x.n = 0 THEN y ELSE x.n

\* ------------------------------------------------- application control methods

\* a method returns to its caller: the value it hands back, when a str or a bool
Handed(st, name) ==
    IF ~Live(st) THEN st
    ELSE Log(st, Ev("ret", name,
                    IF st.val.t = "str" THEN st.val.s ELSE <<>>,
                    IF st.val.t = "bool" /\ st.val.b THEN 1 ELSE 0, {}))

Mac_bring_to_front(self, env, st) ==
    LET s1 == run_applescript(self, env, st, Script("activate", <<>>, 0, {}))
    IN Return(Sleep(s1, self._ui_delay), None)

Win_bring_to_front(self, env, st) ==
    LET s1 == WindowsCall(self, env, st, "control_window", <<"executable:Spotify.exe">>)
    IN Return(Sleep(s1, self._ui_delay), None)

\* SpotifyControllerBase.bring_to_front, as each backend overrides it
bring_to_front(self, env, st) ==
    LET s0 == Enter(st, "bring_to_front") IN
    Handed(IF self.cls = MAC_CLASS THEN Mac_bring_to_front(self, env, s0)
           ELSE Win_bring_to_front(self, env, s0), "bring_to_front")

Mac_launch(self, env, st, wait, delay) ==
    LET s1 == run_applescript(self, env, st, Script("activate", <<>>, 0, {}))
    IN Return(IF wait THEN Sleep(s1, OrElse(delay, DEFAULT_LAUNCH_DELAY)) ELSE s1, None)

Win_launch(self, env, st, wait, delay) ==
    LET s1 == WindowsCall(self, env, st, "windows_run", <<"spotify">>)
    IN Return(IF wait THEN Sleep(s1, OrElse(delay, DEFAULT_LAUNCH_DELAY)) ELSE s1, None)

launch(self, env, st, wait, delay) ==
    LET s0 == Enter(st, "launch") IN
    Handed(IF self.cls = MAC_CLASS THEN Mac_launch(self, env, s0, wait, delay)
           ELSE Win_launch(self, env, s0, wait, delay), "launch")

Mac_quit(self, env, st) ==
    Return(run_applescript(self, env, st, Script("quit", <<>>, 0, {})), None)

Win_quit(self, env, st) ==
    Then(bring_to_front(self, env, st), LAMBDA s1 :
    Return(WindowsCall(self, env, s1, "close_current_window", <<>>), None))

quit(self, env, st) ==
    LET s0 == Enter(st, "quit") IN
    IF self.cls = MAC_CLASS THEN Mac_quit(self, env, s0) ELSE Win_quit(self, env, s0)

Mac_is_running(self, env, st) ==
    LET s1 == run_applescript(self, env, st,
                              Script("processes contains Spotify", <<>>, 0, {}))
    IN IF Live(s1) THEN Return(s1, Bool(Lower(s1.val.s) = <<"t", "r", "u", "e">>))
       ELSE s1

\* try: control_window(...); return True / except Exception: return False
Win_is_running(self, env, st) ==
    LET s1 == WindowsCall(self, env, st, "control_window",
                          <<"executable:Spotify.exe", "timeout=1">>)
    IN IF ~Live(st) THEN st
       ELSE IF Live(s1) THEN Return(s1, Bool(TRUE))
       ELSE [s1 EXCEPT !.err = NoErr, !.msg = <<>>, !.val = Bool(FALSE)]

is_running(self, env, st) ==
    LET s0 == Enter(st, "is_running") IN
    Handed(IF self.cls = MAC_CLASS THEN Mac_is_running(self, env, s0)
           ELSE Win_is_running(self, env, s0), "is_running")

\* ------------------------------------------------------------- playback state

Mac_get_player_state(self, env, st) ==
    LET s1 == run_applescript(self, env, st,
                              Script("player state as string", <<>>, 0, {}))
    IN IF Live(s1) THEN Return(s1, Str(Lower(s1.val.s))) ELSE s1

\* WindowsSpotifyController._get_window_title: the title, or None on any exception
get_window_title(self, env, st) ==
    LET s1 == WindowsCall(self, env, st, "get_element", <<"executable:Spotify.exe">>)
    IN IF ~Live(st) THEN st
       ELSE IF Live(s1) THEN s1
       ELSE [s1 EXCEPT !.err = NoErr, !.msg = <<>>, !.val = None]

\* not title
NoTitle(v) == v.t = "none" \/ v.s = <<>>

\* the state answered from what was seen last, here: paused, with no read of the title
Win_get_player_state_unread(self, env, st) == Return(st, Str(PAUSED))

Win_get_player_state(self, env, st) ==
    LET s1 == get_window_title(self, env, st) IN
    IF ~Live(s1) THEN s1
    ELSE IF NoTitle(s1.val) THEN Return(s1, Str(STOPPED))
    ELSE IF s1.val.s \in IDLE_TITLES THEN Return(s1, Str(PAUSED))
    ELSE Return(s1, Str(PLAYING))

get_player_state(self, env, st) ==
    LET s0 == Enter(st, "get_player_state") IN
    Handed(IF self.cls = MAC_CLASS THEN Mac_get_player_state(self, env, s0)
           ELSE Win_get_player_state(self, env, s0), "get_player_state")

is_playing_not_stopped(self, env, st) ==
    Then(get_player_state(self, env, Enter(st, "is_playing")), LAMBDA s1 :
    Return(s1, Bool(s1.val.s # STOPPED)))

\* SpotifyControllerBase.is_playing
is_playing(self, env, st) ==
    Then(get_player_state(self, env, Enter(st, "is_playing")), LAMBDA s1 :
    Return(s1, Bool(s1.val.s = PLAYING)))

\* ---------------------------------------------------------- playback commands

MacCommand(self, env, st, cmd) ==
    Return(run_applescript(self, env, st, Script(cmd, <<>>, 0, {})), None)

SendMediaKey(self, env, st, key) ==
    Return(WindowsCall(self, env, st, "send_keys", <<key>>), None)

Win_play(self, env, st) ==
    Then(is_playing(self, env, st), LAMBDA s1 :
    IF ~s1.val.b THEN SendMediaKey(self, env, s1, "{MEDIA_PLAY_PAUSE}")
    ELSE Return(s1, None))

Win_pause(self, env, st) ==
    Then(is_playing(self, env, st), LAMBDA s1 :
    IF s1.val.b THEN SendMediaKey(self, env, s1, "{MEDIA_PLAY_PAUSE}")
    ELSE Return(s1, None))

play(self, env, st) ==
    LET s0 == Enter(st, "play") IN
    IF self.cls = MAC_CLASS THEN MacCommand(self, env, s0, "play")
    ELSE Win_play(self, env, s0)

pause(self, env, st) ==
    LET s0 == Enter(st, "pause") IN
    IF self.cls = MAC_CLASS THEN MacCommand(self, env, s0, "pause")
    ELSE Win_pause(self, env, s0)

play_pause(self, env, st) ==
    LET s0 == Enter(st, "play_pause") IN
    IF self.cls = MAC_CLASS THEN MacCommand(self, env, s0, "playpause")
    ELSE SendMediaKey(self, env, s0, "{MEDIA_PLAY_PAUSE}")

next_track(self, env, st) ==
    LET s0 == Enter(st, "next_track") IN
    IF self.cls = MAC_CLASS THEN MacCommand(self, env, s0, "next track")
    ELSE SendMediaKey(self, env, s0, "{MEDIA_NEXT_TRACK}")

previous_track(self, env, st) ==
    LET s0 == Enter(st, "previous_track") IN
    IF self.cls = MAC_CLASS THEN MacCommand(self, env, s0, "previous track")
    ELSE SendMediaKey(self, env, s0, "{MEDIA_PREV_TRACK}")

\* ---------------------------------- volume, position, uri, shuffle and repeat

\* the first sentence of each NotImplementedError message of windows.py
Unsupported(st, what) ==
    Raise(st, "NotImplementedError", <<what \o " is not available on Windows. ">>)

Mac_set_volume_unchecked(self, env, st, level) ==
    Return(run_applescript(self, env, st, Script("set sound volume", <<>>, level, {})),
           None)

Mac_set_volume(self, env, st, level) ==
    IF ~(0 <= level /\ level <= 100)
    THEN Raise(st, "ValueError", <<"Volume must be between 0 and 100">>)
    ELSE Return(run_applescript(self, env, st,
                                Script("set sound volume", <<>>, level, {})), None)

Win_set_volume_sending(self, env, st, level) ==
    Unsupported(WindowsCall(self, env, st, "send_keys", <<"{VOLUME}">>), "Volume control")

Win_set_volume(self, env, st, level) == Unsupported(st, "Volume control")

set_volume(self, env, st, level) ==
    LET s0 == EnterWith(st, "set_volume", <<>>, level) IN
    IF self.cls = MAC_CLASS THEN Mac_set_volume(self, env, s0, level)
    ELSE Win_set_volume(self, env, s0, level)

Mac_get_volume(self, env, st) ==
    LET s1 == run_applescript(self, env, st, Script("sound volume", <<>>, 0, {})) IN
    IF ~Live(s1) THEN s1
    ELSE IF IsIntText(s1.val.s) THEN Return(s1, Int_(IntOf(s1.val.s)))
    ELSE Raise(s1, "ValueError", <<"invalid literal for int()">>)

Win_get_volume(self, env, st) == Unsupported(st, "Volume reading")

get_volume(self, env, st) ==
    LET s0 == Enter(st, "get_volume") IN
    IF self.cls = MAC_CLASS THEN Mac_get_volume(self, env, s0)
    ELSE Win_get_volume(self, env, s0)

Mac_get_player_position(self, env, st) ==
    LET s1 == run_applescript(self, env, st, Script("player position", <<>>, 0, {})) IN
    IF ~Live(s1) THEN s1
    ELSE IF IsFloatText(s1.val.s) THEN Return(s1, [t |-> "float", s |-> s1.val.s])
    ELSE Raise(s1, "ValueError", <<"could not convert string to float">>)

Win_get_player_position(self, env, st) == Unsupported(st, "Playback position")

get_player_position(self, env, st) ==
    LET s0 == Enter(st, "get_player_position") IN
    IF self.cls = MAC_CLASS THEN Mac_get_player_position(self, env, s0)
    ELSE Win_get_player_position(self, env, s0)

Mac_set_player_position(self, env, st, position) ==
    Return(run_applescript(self, env, st,
                           Script("set player position", <<>>, position, {})), None)

Win_set_player_position(self, env, st, position) == Unsupported(st, "Seeking")

set_player_position(self, env, st, position) ==
    LET s0 == EnterWith(st, "set_player_position", <<>>, position) IN
    IF self.cls = MAC_CLASS THEN Mac_set_player_position(self, env, s0, position)
    ELSE Win_set_player_position(self, env, s0, position)

Mac_play_track(self, env, st, spotify_uri) ==
    Return(run_applescript(self, env, st, Script("play track", spotify_uri, 0, {})), None)

Win_play_track(self, env, st, spotify_uri) == Unsupported(st, "Playing by URI")

play_track(self, env, st, spotify_uri) ==
    LET s0 == EnterWith(st, "play_track", spotify_uri, 0) IN
    IF self.cls = MAC_CLASS THEN Mac_play_track(self, env, s0, spotify_uri)
    ELSE Win_play_track(self, env, s0, spotify_uri)

\* is_shuffling / is_repeating on Backend A: result.lower() == "true"
MacFlag(self, env, st, cmd) ==
    LET s1 == run_applescript(self, env, st, Script(cmd, <<>>, 0, {})) IN
    IF Live(s1) THEN Return(s1, Bool(Lower(s1.val.s) = <<"t", "r", "u", "e">>)) ELSE s1

\* set_shuffling / set_repeating on Backend A
MacSetFlag(self, env, st, cmd, enabled) ==
    LET value == IF enabled THEN <<"t", "r", "u", "e">> ELSE <<"f", "a", "l", "s", "e">>
    IN Return(run_applescript(self, env, st, Script(cmd, value, 0, {})), None)

Win_is_shuffling(self, env, st) == Unsupported(st, "Shuffle state")
Win_is_repeating(self, env, st) == Unsupported(st, "Repeat state")
Win_set_shuffling(self, env, st, enabled) == Unsupported(st, "Shuffle control")
Win_set_repeating(self, env, st, enabled) == Unsupported(st, "Repeat control")

is_shuffling(self, env, st) ==
    LET s0 == Enter(st, "is_shuffling") IN
    IF self.cls = MAC_CLASS THEN MacFlag(self, env, s0, "shuffling")
    ELSE Win_is_shuffling(self, env, s0)

is_repeating(self, env, st) ==
    LET s0 == Enter(st, "is_repeating") IN
    IF self.cls = MAC_CLASS THEN MacFlag(self, env, s0, "repeating")
    ELSE Win_is_repeating(self, env, s0)

set_shuffling(self, env, st, enabled) ==
    LET s0 == EnterWith(st, "set_shuffling", <<>>, IF enabled THEN 1 ELSE 0) IN
    IF self.cls = MAC_CLASS THEN MacSetFlag(self, env, s0, "set shuffling", enabled)
    ELSE Win_set_shuffling(self, env, s0, enabled)

set_repeating(self, env, st, enabled) ==
    LET s0 == EnterWith(st, "set_repeating", <<>>, IF enabled THEN 1 ELSE 0) IN
    IF self.cls = MAC_CLASS THEN MacSetFlag(self, env, s0, "set repeating", enabled)
    ELSE Win_set_repeating(self, env, s0, enabled)

\* ---------------------------------------------------------- track information

Mac_get_current_track(self, env, st) ==
    LET s1 == run_applescript(self, env, st, Script("current track record", <<>>, 0, {}))
    IN IF ~Live(s1) THEN s1
       ELSE LET res == s1.val.s
                parts == Split(res, BAR)
            IN IF res = <<"S", "T", "O", "P", "P", "E", "D">> THEN Return(s1, None)
               ELSE IF Len(parts) # 5 THEN Return(s1, None)
               ELSE IF ~IsIntText(parts[4])
                    THEN Raise(s1, "ValueError", <<"invalid literal for int()">>)
                    ELSE Return(s1, [t |-> "track",
                                     track |-> TrackInfo(parts[1], parts[2], parts[3],
                                                         IntOf(parts[4]), parts[5])])

NoNewline(s) == \A i \in 1..Len(s) : s[i] # "\n"

\* the ways "(.+?) - (.+?) - Spotify" matches at the start of title: <<i, j>> for
\* a first group of i and a second group of j characters
TitleMatches(title) ==
    {m \in (1..Len(title)) \X (1..Len(title)) :
        /\ m[1] + Len(SEP) + m[2] + Len(TITLE_TAIL) <= Len(title)
        /\ SubSeq(title, m[1] + 1, m[1] + Len(SEP)) = SEP
        /\ SubSeq(title, m[1] + Len(SEP) + m[2] + 1,
                  m[1] + Len(SEP) + m[2] + Len(TITLE_TAIL)) = TITLE_TAIL
        /\ NoNewline(SubSeq(title, 1, m[1]))
        /\ NoNewline(SubSeq(title, m[1] + Len(SEP) + 1, m[1] + Len(SEP) + m[2]))}

\* re.match(r"(.+?) - (.+?) - Spotify", title): both groups are lazy, so the match
\* found is the one with the shortest first group, then the shortest second group
TitleMatch(title) ==
    CHOOSE m \in TitleMatches(title) :
        \A o \in TitleMatches(title) :
            m[1] < o[1] \/ (m[1] = o[1] /\ m[2] <= o[2])

\* the match a greedy first group, (.+), would find
TitleMatchGreedy(title) ==
    CHOOSE m \in TitleMatches(title) :
        \A o \in TitleMatches(title) :
            m[1] > o[1] \/ (m[1] = o[1] /\ m[2] <= o[2])

Win_get_current_track_greedy(self, env, st) ==
    LET s1 == get_window_title(self, env, st) IN
    IF ~Live(s1) THEN s1
    ELSE IF NoTitle(s1.val) THEN Return(s1, None)
    ELSE IF s1.val.s \in IDLE_TITLES THEN Return(s1, None)
    ELSE LET title == s1.val.s IN
         IF TitleMatches(title) # {}
         THEN LET m == TitleMatchGreedy(title)
                  group1 == SubSeq(title, 1, m[1])
                  group2 == SubSeq(title, m[1] + Len(SEP) + 1, m[1] + Len(SEP) + m[2])
              IN Return(s1, [t |-> "track",
                             track |-> TrackInfo(group2, group1, <<>>, 0, <<>>)])
         ELSE Return(s1, None)

Win_get_current_track(self, env, st) ==
    LET s1 == get_window_title(self, env, st) IN
    IF ~Live(s1) THEN s1
    ELSE IF NoTitle(s1.val) THEN Return(s1, None)
    ELSE IF s1.val.s \in IDLE_TITLES THEN Return(s1, None)
    ELSE LET title == s1.val.s IN
         IF TitleMatches(title) # {}
         THEN LET m == TitleMatch(title)
                  group1 == SubSeq(title, 1, m[1])
                  group2 == SubSeq(title, m[1] + Len(SEP) + 1, m[1] + Len(SEP) + m[2])
              IN Return(s1, [t |-> "track",
                             track |-> TrackInfo(group2, group1, <<>>, 0, <<>>)])
         ELSE Return(s1, None)

get_current_track(self, env, st) ==
    LET s0 == Enter(st, "get_current_track") IN
    IF self.cls = MAC_CLASS THEN Mac_get_current_track(self, env, s0)
    ELSE Win_get_current_track(self, env, s0)

\* ------------------------------------------------------------ UI automation

DELAY_PER_CHAR == 20

RECURSIVE Escape(_)
\* text.replace('\\', '\\\\').replace('"', '\\"')
Escape(text) ==
    IF text = <<>> THEN <<>>
    ELSE IF Head(text) = "\\" THEN <<"\\", "\\">> \o Escape(Tail(text))
    ELSE IF Head(text) = "\"" THEN <<"\\", "\"">> \o Escape(Tail(text))
    ELSE <<Head(text)>> \o Escape(Tail(text))

Mac_keystroke(self, env, st, key, modifiers) ==
    LET s1 == run_applescript(self, env, st, Script("keystroke", <<key>>, 0, modifiers))
    IN Return(Sleep(s1, DEFAULT_KEYSTROKE_DELAY), None)

Win_keystroke(self, env, st, key, modifiers) ==
    Then(bring_to_front(self, env, st), LAMBDA s1 :
    Then(IF modifiers # {} /\ "control" \in modifiers
         THEN WindowsCall(self, env, s1, "send_keys", <<"{Ctrl}", key>>)
         ELSE WindowsCall(self, env, s1, "send_keys", <<key>>), LAMBDA s2 :
    Return(Sleep(s2, DEFAULT_KEYSTROKE_DELAY), None)))

keystroke(self, env, st, key, modifiers) ==
    LET s0 == Log(st, Ev("call", "_keystroke", <<key>>, 0, modifiers)) IN
    Handed(IF self.cls = MAC_CLASS THEN Mac_keystroke(self, env, s0, key, modifiers)
           ELSE Win_keystroke(self, env, s0, key, modifiers), "_keystroke")

Mac_key_code(self, env, st, code, modifiers) ==
    LET s1 == run_applescript(self, env, st, Script("key code", <<>>, code, modifiers))
    IN Return(Sleep(s1, DEFAULT_KEYSTROKE_DELAY), None)

\* key_map.get(code, "")
KeyMapGet(code) ==
    CASE code = 13 -> "{ENTER}"
      [] code = 27 -> "{ESC}"
      [] code = 9 -> "{TAB}"
      [] code = 40 -> "{DOWN}"
      [] code = 38 -> "{UP}"
      [] code = 32 -> "{SPACE}"
      [] OTHER -> ""

\* the mapped key sent to whatever window has the focus
Win_key_code_unfocused(self, env, st, code, modifiers) ==
    LET key == KeyMapGet(code) IN
    IF key # ""
    THEN Then(WindowsCall(self, env, st, "send_keys", <<key>>), LAMBDA s2 :
         Return(Sleep(s2, DEFAULT_KEYSTROKE_DELAY), None))
    ELSE Return(st, None)

Win_key_code(self, env, st, code, modifiers) ==
    LET key == KeyMapGet(code) IN
    IF key # ""
    THEN Then(bring_to_front(self, env, st), LAMBDA s1 :
         Then(WindowsCall(self, env, s1, "send_keys", <<key>>), LAMBDA s2 :
         Return(Sleep(s2, DEFAULT_KEYSTROKE_DELAY), None)))
    ELSE Return(st, None)

key_code(self, env, st, code, modifiers) ==
    LET s0 == Log(st, Ev("call", "_key_code", <<>>, code, modifiers)) IN
    Handed(IF self.cls = MAC_CLASS THEN Mac_key_code(self, env, s0, code, modifiers)
           ELSE Win_key_code(self, env, s0, code, modifiers), "_key_code")

Mac_type_text(self, env, st, text, delay_per_char) ==
    LET escaped == Escape(text)
        s1 == run_applescript(self, env, st, Script("keystroke", escaped, 0, {}))
    IN Return(Sleep(s1, Len(text) * delay_per_char + self._ui_delay), None)

Win_type_text(self, env, st, text, delay_per_char) ==
    Then(bring_to_front(self, env, st), LAMBDA s1 :
    Then(WindowsCall(self, env, s1, "send_keys", text), LAMBDA s2 :
    Return(Sleep(s2, Len(text) * delay_per_char + self._ui_delay), None)))

type_text(self, env, st, text, delay_per_char) ==
    LET s0 == EnterWith(st, "_type_text", text, delay_per_char) IN
    Handed(IF self.cls = MAC_CLASS THEN Mac_type_text(self, env, s0, text, delay_per_char)
           ELSE Win_type_text(self, env, s0, text, delay_per_char), "_type_text")

get_return_key_code(self) == IF self.cls = MAC_CLASS THEN 36 ELSE 13
get_escape_key_code(self) == IF self.cls = MAC_CLASS THEN 53 ELSE 27
get_tab_key_code(self) == IF self.cls = MAC_CLASS THEN 48 ELSE 9
get_down_arrow_key_code(self) == IF self.cls = MAC_CLASS THEN 125 ELSE 40
get_up_arrow_key_code(self) == IF self.cls = MAC_CLASS THEN 126 ELSE 38
get_space_key_code(self) == IF self.cls = MAC_CLASS THEN 49 ELSE 32
get_command_modifier(self) == IF self.cls = MAC_CLASS THEN "command" ELSE "control"

\* ------------------------------------------- shared procedures (base.py)

press_return(self, env, st) ==
    Handed(key_code(self, env, Enter(st, "_press_return"), get_return_key_code(self), {}),
           "_press_return")

press_tab(self, env, st) ==
    Handed(key_code(self, env, Enter(st, "_press_tab"), get_tab_key_code(self), {}),
           "_press_tab")

press_down_arrow(self, env, st) ==
    Handed(key_code(self, env, Enter(st, "_press_down_arrow"),
                    get_down_arrow_key_code(self), {}), "_press_down_arrow")

open_search(self, env, st) ==
    Then(bring_to_front(self, env, Enter(st, "open_search")), LAMBDA s1 :
    Then(keystroke(self, env, s1, "k", {get_command_modifier(self)}), LAMBDA s2 :
    Handed(Return(Sleep(s2, self._ui_delay), None), "open_search")))

search_always_waits(self, env, st, query, wait_for_results) ==
    Then(open_search(self, env, EnterWith(st, "search", query,
                                          IF wait_for_results THEN 1 ELSE 0)),
         LAMBDA s1 :
    Then(type_text(self, env, Sleep(s1, 300), query, DELAY_PER_CHAR), LAMBDA s2 :
    Handed(Return(Sleep(s2, DEFAULT_SEARCH_DELAY), None), "search")))

search(self, env, st, query, wait_for_results) ==
    Then(open_search(self, env, EnterWith(st, "search", query,
                                          IF wait_for_results THEN 1 ELSE 0)),
         LAMBDA s1 :
    Then(type_text(self, env, Sleep(s1, 300), query, DELAY_PER_CHAR), LAMBDA s2 :
    Handed(Return(IF wait_for_results THEN Sleep(s2, DEFAULT_SEARCH_DELAY) ELSE s2, None),
           "search")))

select_first_search_result(self, env, st) ==
    Then(press_down_arrow(self, env, Sleep(Enter(st, "select_first_search_result"), 300)),
         LAMBDA s1 :
    Then(press_return(self, env, Sleep(s1, 200)), LAMBDA s2 :
    Handed(Return(Sleep(s2, self._ui_delay), None), "select_first_search_result")))

TabAndWait(self, env, st) ==
    Then(press_tab(self, env, st), LAMBDA s1 : Sleep(s1, 100))

navigate_to_first_song(self, env, st) ==
    Then(TabAndWait(self, env, Enter(st, "navigate_to_first_song")), LAMBDA s1 :
    Then(TabAndWait(self, env, s1), LAMBDA s2 :
    Then(TabAndWait(self, env, s2), LAMBDA s3 :
    Return(press_return(self, env, s3), None))))

play_playlist_by_name_focus_too(self, env, st, playlist_name, play_first_song, search_delay) ==
    Then(is_running(self, env, EnterWith(st, "play_playlist_by_name", playlist_name,
                                         search_delay)), LAMBDA s1 :
    Then(IF ~s1.val.b
         THEN Then(launch(self, env, s1, TRUE, None), LAMBDA s :
                   bring_to_front(self, env, s))
         ELSE bring_to_front(self, env, s1), LAMBDA s2 :
    Then(search(self, env, s2, playlist_name, FALSE), LAMBDA s3 :
    Then(select_first_search_result(self, env, Sleep(s3, search_delay)), LAMBDA s4 :
    Handed(Return(IF play_first_song
                  THEN press_return(self, env, Sleep(Sleep(s4, 1000), 500))
                  ELSE Sleep(s4, 1000), None), "play_playlist_by_name")))))

play_playlist_by_name_one_return(self, env, st, playlist_name, play_first_song, search_delay) ==
    Then(is_running(self, env, EnterWith(st, "play_playlist_by_name", playlist_name,
                                         search_delay)), LAMBDA s1 :
    Then(IF ~s1.val.b
         THEN launch(self, env, s1, TRUE, None)
         ELSE bring_to_front(self, env, s1), LAMBDA s2 :
    Then(search(self, env, s2, playlist_name, FALSE), LAMBDA s3 :
    Then(select_first_search_result(self, env, Sleep(s3, search_delay)), LAMBDA s4 :
    Handed(Return(Sleep(s4, 1000), None), "play_playlist_by_name")))))

play_playlist_by_name(self, env, st, playlist_name, play_first_song, search_delay) ==
    Then(is_running(self, env, EnterWith(st, "play_playlist_by_name", playlist_name,
                                         search_delay)), LAMBDA s1 :
    Then(IF ~s1.val.b
         THEN launch(self, env, s1, TRUE, None)
         ELSE bring_to_front(self, env, s1), LAMBDA s2 :
    Then(search(self, env, s2, playlist_name, FALSE), LAMBDA s3 :
    Then(select_first_search_result(self, env, Sleep(s3, search_delay)), LAMBDA s4 :
    Handed(Return(IF play_first_song
                  THEN press_return(self, env, Sleep(Sleep(s4, 1000), 500))
                  ELSE Sleep(s4, 1000), None), "play_playlist_by_name")))))

search_and_play_eager(self, env, st, query) ==
    Then(search(self, env, EnterWith(st, "search_and_play", query, 0), query, TRUE),
         LAMBDA s1 :
    Then(play(self, env, s1), LAMBDA s2 :
    Return(Sleep(select_first_search_result(self, env, s2), 500), None)))

search_and_play(self, env, st, query) ==
    Then(search(self, env, EnterWith(st, "search_and_play", query, 0), query, TRUE),
         LAMBDA s1 :
    Then(select_first_search_result(self, env, s1), LAMBDA s2 :
    Return(play(self, env, Sleep(s2, 500)), None)))

\* shuffle toggled by reading the flag and setting its opposite
toggle_shuffle_by_state(self, env, st) ==
    Then(is_shuffling(self, env, Enter(st, "toggle_shuffle")), LAMBDA s1 :
    set_shuffling(self, env, s1, ~s1.val.b))

toggle_shuffle(self, env, st) ==
    Then(bring_to_front(self, env, Enter(st, "toggle_shuffle")), LAMBDA s1 :
    Return(keystroke(self, env, s1, "s", {get_command_modifier(self)}), None))

toggle_repeat(self, env, st) ==
    Then(bring_to_front(self, env, Enter(st, "toggle_repeat")), LAMBDA s1 :
    Return(keystroke(self, env, s1, "r", {get_command_modifier(self)}), None))

\* set_ui_delay that keeps the old value
set_ui_delay_ignored(self, delay) == self

\* SpotifyControllerBase.set_ui_delay
set_ui_delay(self, delay) == SetAttr(self, "_ui_delay", delay)

\* ------------------------------------------------------- inputs of operations

VolMargin == 1

Levels ==
    ((0 - VolMargin)..VolMargin) \cup {50} \cup ((100 - VolMargin)..(100 + VolMargin))

Queries == {<<"a", "b">>, <<"q", "\"">>}
SearchDelays == {2000, 0}
UiDelays == {0, DEFAULT_UI_DELAY}
LaunchDelays == {None, Int_(0), Int_(1000)}
Positions == {0, 30}
KeyCodes == {13, 40, 36, 125, 65}
Keys == {"k", "x"}
ModifierSets == SUBSET {"control", "shift"}

\* -------------------------------------------------------------------- actions

Init ==
    /\ track = NoObj
    /\ result = Idle
    /\ calls = <<>>
    /\ ctl = NoObj
    /\ facade = NoObj
    /\ app \in AppStates
    /\ frame = NoFrame
    /\ clock = 0

\* create_spotify_controller(platform_name, debug) called directly
CreateController ==
    /\ result = Idle /\ ctl = NoObj /\ facade = NoObj
    /\ \E platform_name \in Tags, debug \in BOOLEAN, available \in BOOLEAN :
        LET made == create_spotify_controller(platform_name, debug, available) IN
        /\ ctl' = made.obj
        /\ result' = Outcome("create_spotify_controller",
                             [platform_name |-> platform_name, debug |-> debug,
                              available |-> available],
                             made.err, made.msg, None, FALSE, app)
    /\ UNCHANGED <<track, calls, facade, app, frame, clock>>

\* SpotifyRPA(debug)
CreateFacade ==
    /\ result = Idle /\ ctl = NoObj /\ facade = NoObj
    /\ \E system \in Systems, debug \in BOOLEAN, available \in BOOLEAN :
        LET made == SpotifyRPA_init(system, debug, available) IN
        /\ facade' = made.obj
        /\ ctl' = made.controller
        /\ result' = Outcome("SpotifyRPA",
                             [system |-> system, debug |-> debug,
                              available |-> available],
                             made.err, made.msg, None, FALSE, app)
    /\ UNCHANGED <<track, calls, app, frame, clock>>

\* get_platform()
CallGetPlatform ==
    /\ result = Idle
    /\ \E system \in Systems :
        result' = Outcome("get_platform", [system |-> system], NoErr, <<>>,
                          Str(get_platform(system)), FALSE, app)
    /\ UNCHANGED <<track, calls, ctl, facade, app, frame, clock>>

\* the process ends: the facade and the controller are gone
Exit ==
    /\ result = Idle /\ ctl # NoObj
    /\ ctl' = NoObj /\ facade' = NoObj
    /\ UNCHANGED <<track, result, calls, app, frame, clock>>

\* the user or the application itself changes what the channel observes
ExternalChange ==
    /\ result = Idle
    /\ app' \in AppStates \ {app}
    /\ UNCHANGED <<track, result, calls, ctl, facade, frame, clock>>

\* the caller takes the outcome of the operation
TakeResult ==
    /\ result # Idle
    /\ result' = Idle /\ calls' = <<>>
    /\ UNCHANGED <<track, ctl, facade, app, frame, clock>>

Ready == result = Idle /\ ctl # NoObj

\* an operation of the controller ran to its end st
Finish(op, args, st) ==
    /\ result' = Outcome(op, args, st.err, st.msg, IF Live(st) THEN st.val ELSE None,
                         st.failed, app)
    /\ calls' = st.trace
    /\ app' = st.app
    /\ UNCHANGED <<track, ctl, facade, frame, clock>>

CallLaunch ==
    /\ Ready
    /\ \E env \in Envs(NoOutput), wait \in BOOLEAN, delay \in LaunchDelays :
        Finish("launch", [wait |-> wait, delay |-> delay],
               launch(ctl, env, Start(app), wait, delay))

CallQuit ==
    Ready /\ \E env \in Envs(NoOutput) : Finish("quit", <<>>, quit(ctl, env, Start(app)))

CallIsRunning ==
    Ready /\ \E env \in Envs(NoOutput) :
        Finish("is_running", <<>>, is_running(ctl, env, Start(app)))

CallBringToFront ==
    Ready /\ \E env \in Envs(NoOutput) :
        Finish("bring_to_front", <<>>, bring_to_front(ctl, env, Start(app)))

CallPlay ==
    Ready /\ \E env \in Envs(PlayerOutputs) : Finish("play", <<>>, play(ctl, env, Start(app)))

CallPause ==
    Ready /\ \E env \in Envs(PlayerOutputs) :
        Finish("pause", <<>>, pause(ctl, env, Start(app)))

CallPlayPause ==
    Ready /\ \E env \in Envs(NoOutput) :
        Finish("play_pause", <<>>, play_pause(ctl, env, Start(app)))

CallNextTrack ==
    Ready /\ \E env \in Envs(NoOutput) :
        Finish("next_track", <<>>, next_track(ctl, env, Start(app)))

CallPreviousTrack ==
    Ready /\ \E env \in Envs(NoOutput) :
        Finish("previous_track", <<>>, previous_track(ctl, env, Start(app)))

CallSetVolume ==
    Ready /\ \E env \in Envs(NoOutput), level \in Levels :
        Finish("set_volume", [level |-> level], set_volume(ctl, env, Start(app), level))

CallGetVolume ==
    Ready /\ \E env \in Envs({<<"5", "0">>, <<"x">>}) :
        Finish("get_volume", <<>>, get_volume(ctl, env, Start(app)))

CallGetPlayerState ==
    Ready /\ \E env \in Envs(PlayerOutputs) :
        Finish("get_player_state", [stdout |-> env.stdout],
               get_player_state(ctl, env, Start(app)))

CallIsPlaying ==
    Ready /\ \E env \in Envs(PlayerOutputs) :
        Finish("is_playing", [stdout |-> env.stdout], is_playing(ctl, env, Start(app)))

CallGetPlayerPosition ==
    Ready /\ \E env \in Envs({<<"1", ".", "5">>, <<"x">>}) :
        Finish("get_player_position", <<>>, get_player_position(ctl, env, Start(app)))

CallSetPlayerPosition ==
    Ready /\ \E env \in Envs(NoOutput), position \in Positions :
        Finish("set_player_position", [position |-> position],
               set_player_position(ctl, env, Start(app), position))

CallGetCurrentTrack ==
    Ready /\ \E env \in Envs(TrackOutputs) :
        Finish("get_current_track", [stdout |-> env.stdout],
               get_current_track(ctl, env, Start(app)))

CallPlayTrack ==
    Ready /\ \E env \in Envs(NoOutput) :
        Finish("play_track", [spotify_uri |-> URI], play_track(ctl, env, Start(app), URI))

CallIsShuffling ==
    Ready /\ \E env \in Envs({<<"t", "r", "u", "e">>, <<"f", "a", "l", "s", "e">>}) :
        Finish("is_shuffling", <<>>, is_shuffling(ctl, env, Start(app)))

CallIsRepeating ==
    Ready /\ \E env \in Envs({<<"t", "r", "u", "e">>, <<"f", "a", "l", "s", "e">>}) :
        Finish("is_repeating", <<>>, is_repeating(ctl, env, Start(app)))

CallSetShuffling ==
    Ready /\ \E env \in Envs(NoOutput), enabled \in BOOLEAN :
        Finish("set_shuffling", [enabled |-> enabled],
               set_shuffling(ctl, env, Start(app), enabled))

CallSetRepeating ==
    Ready /\ \E env \in Envs(NoOutput), enabled \in BOOLEAN :
        Finish("set_repeating", [enabled |-> enabled],
               set_repeating(ctl, env, Start(app), enabled))

CallSetUiDelay ==
    /\ Ready
    /\ \E delay \in UiDelays :
        /\ ctl' = set_ui_delay(ctl, delay)
        /\ result' = Outcome("set_ui_delay", [delay |-> delay], NoErr, <<>>, None, FALSE, app)
    /\ calls' = <<>>
    /\ UNCHANGED <<track, facade, app, frame, clock>>

CallKeystroke ==
    Ready /\ \E env \in Envs(NoOutput), key \in Keys, modifiers \in ModifierSets :
        Finish("_keystroke", [key |-> key, modifiers |-> modifiers],
               keystroke(ctl, env, Start(app), key, modifiers))

CallKeyCode ==
    Ready /\ \E env \in Envs(NoOutput), code \in KeyCodes, modifiers \in ModifierSets :
        Finish("_key_code", [code |-> code, modifiers |-> modifiers],
               key_code(ctl, env, Start(app), code, modifiers))

CallTypeText ==
    Ready /\ \E env \in Envs(NoOutput), text \in Queries :
        Finish("_type_text", [text |-> text],
               type_text(ctl, env, Start(app), text, DELAY_PER_CHAR))

CallOpenSearch ==
    Ready /\ \E env \in Envs(NoOutput) :
        Finish("open_search", <<>>, open_search(ctl, env, Start(app)))

CallSearch ==
    Ready /\ \E env \in Envs(NoOutput), query \in Queries, wait_for_results \in BOOLEAN :
        Finish("search", [query |-> query, wait_for_results |-> wait_for_results],
               search(ctl, env, Start(app), query, wait_for_results))

CallSelectFirstSearchResult ==
    Ready /\ \E env \in Envs(NoOutput) :
        Finish("select_first_search_result", <<>>,
               select_first_search_result(ctl, env, Start(app)))

CallNavigateToFirstSong ==
    Ready /\ \E env \in Envs(NoOutput) :
        Finish("navigate_to_first_song", <<>>, navigate_to_first_song(ctl, env, Start(app)))

CallPlayPlaylistByName ==
    Ready /\ \E env \in Envs(NoOutput), playlist_name \in Queries,
                play_first_song \in BOOLEAN, search_delay \in SearchDelays :
        Finish("play_playlist_by_name",
               [playlist_name |-> playlist_name, play_first_song |-> play_first_song,
                search_delay |-> search_delay],
               play_playlist_by_name(ctl, env, Start(app), playlist_name,
                                     play_first_song, search_delay))

CallSearchAndPlay ==
    Ready /\ \E env \in Envs(PlayerOutputs), query \in Queries :
        Finish("search_and_play", [query |-> query],
               search_and_play(ctl, env, Start(app), query))

CallToggleShuffle ==
    Ready /\ \E env \in Envs(NoOutput) :
        Finish("toggle_shuffle", <<>>, toggle_shuffle(ctl, env, Start(app)))

CallToggleRepeat ==
    Ready /\ \E env \in Envs(NoOutput) :
        Finish("toggle_repeat", <<>>, toggle_repeat(ctl, env, Start(app)))

\* --------------------------------------------------- calls through the facade

\* a call by name: the name and the arguments (a text, a number, a flag, a set
\* of modifiers) and what osascript prints if asked
Req(name, s, n, b, mods, stdout) ==
    [name |-> name, s |-> s, n |-> n, b |-> b, mods |-> mods, stdout |-> stdout]

NoArgument ==
    {"quit", "is_running", "bring_to_front", "play", "pause", "play_pause",
     "next_track", "previous_track", "open_search", "select_first_search_result",
     "navigate_to_first_song", "toggle_shuffle", "toggle_repeat",
     "no_such_operation"}

FacadeRequests ==
    {Req(name, <<>>, 0, FALSE, {}, <<>>) : name \in NoArgument}
    \cup {Req("launch", <<>>, 0, wait, {}, <<>>) : wait \in BOOLEAN}
    \cup {Req("set_volume", <<>>, level, FALSE, {}, <<>>) : level \in {50, 101}}
    \cup {Req("set_player_position", <<>>, 30, FALSE, {}, <<>>),
          Req("play_track", URI, 0, FALSE, {}, <<>>),
          Req("_keystroke", <<"k">>, 0, FALSE, {"control"}, <<>>),
          Req("_type_text", <<"a", "b">>, 0, FALSE, {}, <<>>),
          Req("search_and_play", <<"a", "b">>, 0, FALSE, {}, <<>>),
          Req("get_volume", <<>>, 0, FALSE, {}, <<"5", "0">>),
          Req("get_player_position", <<>>, 0, FALSE, {}, <<"1", ".", "5">>),
          Req("is_shuffling", <<>>, 0, FALSE, {}, <<"t", "r", "u", "e">>),
          Req("is_repeating", <<>>, 0, FALSE, {}, <<"f", "a", "l", "s", "e">>)}
    \cup {Req(name, <<>>, 0, enabled, {}, <<>>) :
            name \in {"set_shuffling", "set_repeating"}, enabled \in BOOLEAN}
    \cup {Req("_key_code", <<>>, code, FALSE, {}, <<>>) : code \in {13, 65}}
    \cup {Req("search", <<"a", "b">>, 0, wait, {}, <<>>) : wait \in BOOLEAN}
    \cup {Req("play_playlist_by_name", <<"a", "b">>, delay, TRUE, {}, <<>>) :
            delay \in SearchDelays}
    \cup {Req("set_ui_delay", <<>>, delay, FALSE, {}, <<>>) : delay \in UiDelays}
    \cup {Req(name, <<>>, 0, FALSE, {}, out) :
            name \in {"get_player_state", "is_playing"}, out \in {PLAYING, PAUSED}}
    \cup {Req("get_current_track", <<>>, 0, FALSE, {}, out) :
            out \in {STOPPED, Join(<<<<"N">>, <<"A">>, <<"L">>, <<"1", "2">>, URI>>, BAR)}}

FacadeEnvs(stdout) ==
    [failAt : 0..MaxFacadeFailAt, launchWorks : BOOLEAN, stdout : {stdout}]

\* self.<r.name>(arguments of r) on a controller
Invoke(self, r, env, st) ==
    CASE r.name = "launch" -> launch(self, env, st, r.b, Int_(r.n))
      [] r.name = "quit" -> quit(self, env, st)
      [] r.name = "is_running" -> is_running(self, env, st)
      [] r.name = "bring_to_front" -> bring_to_front(self, env, st)
      [] r.name = "play" -> play(self, env, st)
      [] r.name = "pause" -> pause(self, env, st)
      [] r.name = "play_pause" -> play_pause(self, env, st)
      [] r.name = "next_track" -> next_track(self, env, st)
      [] r.name = "previous_track" -> previous_track(self, env, st)
      [] r.name = "set_volume" -> set_volume(self, env, st, r.n)
      [] r.name = "get_volume" -> get_volume(self, env, st)
      [] r.name = "get_player_state" -> get_player_state(self, env, st)
      [] r.name = "is_playing" -> is_playing(self, env, st)
      [] r.name = "get_player_position" -> get_player_position(self, env, st)
      [] r.name = "set_player_position" -> set_player_position(self, env, st, r.n)
      [] r.name = "get_current_track" -> get_current_track(self, env, st)
      [] r.name = "play_track" -> play_track(self, env, st, r.s)
      [] r.name = "is_shuffling" -> is_shuffling(self, env, st)
      [] r.name = "is_repeating" -> is_repeating(self, env, st)
      [] r.name = "set_shuffling" -> set_shuffling(self, env, st, r.b)
      [] r.name = "set_repeating" -> set_repeating(self, env, st, r.b)
      [] r.name = "set_ui_delay" -> Return(st, None)
      [] r.name = "_keystroke" -> keystroke(self, env, st, r.s[1], r.mods)
      [] r.name = "_key_code" -> key_code(self, env, st, r.n, r.mods)
      [] r.name = "_type_text" -> type_text(self, env, st, r.s, DELAY_PER_CHAR)
      [] r.name = "open_search" -> open_search(self, env, st)
      [] r.name = "search" -> search(self, env, st, r.s, r.b)
      [] r.name = "select_first_search_result" ->
            select_first_search_result(self, env, st)
      [] r.name = "navigate_to_first_song" -> navigate_to_first_song(self, env, st)
      [] r.name = "play_playlist_by_name" ->
            play_playlist_by_name(self, env, st, r.s, r.b, r.n)
      [] r.name = "search_and_play" -> search_and_play(self, env, st, r.s)
      [] r.name = "toggle_shuffle" -> toggle_shuffle(self, env, st)
      [] r.name = "toggle_repeat" -> toggle_repeat(self, env, st)
      [] OTHER -> Raise(st, "AttributeError", <<"object has no attribute">>)

\* the controller after the call: set_ui_delay assigns self._ui_delay
After(self, r) == IF r.name = "set_ui_delay" THEN set_ui_delay(self, r.n) ELSE self

\* spotify.<name>(arguments) on the facade
FacadeCall ==
    /\ result = Idle /\ facade # NoObj
    /\ \E r \in FacadeRequests :
       \E env \in FacadeEnvs(r.stdout) :
        LET method == SpotifyRPA_getattr(facade, r.name)
            st == Invoke(method.obj, r, env, Start(app))
        IN /\ result' = Outcome("facade", [request |-> r, env |-> env], st.err, st.msg,
                                IF Live(st) THEN st.val ELSE None, st.failed, app)
           /\ calls' = st.trace
           /\ app' = st.app
           /\ ctl' = IF method.ref = "ctl" THEN After(method.obj, r) ELSE ctl
    /\ UNCHANGED <<track, facade, frame, clock>>

\* ------------------------------------------------- verify_playback (cli.py)

POLL_INTERVAL == 300

Timeouts == {0, POLL_INTERVAL, 700, 1000}

\* while time.time() - start < timeout, with <= for <
vp_test_inclusive(f, now) ==
    IF now - f.start <= f.timeout
    THEN [f EXCEPT !.pc = "poll", !.seen = now]
    ELSE [f EXCEPT !.pc = "done", !.seen = now, !.ret = Bool(FALSE)]

\* while time.time() - start < timeout: ... return False
vp_test(f, now) ==
    IF now - f.start < f.timeout
    THEN [f EXCEPT !.pc = "poll", !.seen = now]
    ELSE [f EXCEPT !.pc = "done", !.seen = now, !.ret = Bool(FALSE)]

\* if spotify.is_playing(): return True, given how the call st ended
vp_poll(f, st) ==
    IF ~Live(st) THEN [f EXCEPT !.pc = "done", !.err = st.err]
    ELSE IF st.val.b THEN [f EXCEPT !.pc = "done", !.ret = Bool(TRUE)]
    ELSE [f EXCEPT !.pc = "sleep"]

\* what a poll observed: 1 playing, 0 not playing, 2 the call raised
Observed(st) == IF ~Live(st) THEN 2 ELSE IF st.val.b THEN 1 ELSE 0

\* the facades verify_playback is handed: one per supported platform
VerifyFacades ==
    {SpotifyRPA_init(system, FALSE, TRUE) :
        system \in {<<"D", "a", "r", "w", "i", "n">>, <<"W", "i", "n", "d", "o", "w", "s">>}}

PollEnvs == FacadeEnvs(PLAYING) \cup FacadeEnvs(PAUSED)

\* self.is_playing() on each controller, application state and channel
\* behaviour, tabulated
is_playing_calls ==
    {[self |-> made.controller, app |-> a, env |-> env,
      st |-> Invoke(made.controller, Req("is_playing", <<>>, 0, FALSE, {}, env.stdout),
                    env, Start(a))] :
        made \in VerifyFacades, a \in AppStates, env \in PollEnvs}

is_playing_call(self, a, env) ==
    (CHOOSE row \in is_playing_calls :
        row.self = self /\ row.app = a /\ row.env = env).st

\* verify_playback(spotify, timeout) is about to be called on a built facade
InitVerify ==
    /\ track = NoObj
    /\ result = Idle
    /\ calls = <<>>
    /\ \E made \in VerifyFacades : facade = made.obj /\ ctl = made.controller
    /\ app \in AppStates
    /\ \E timeout \in Timeouts :
        frame = [pc |-> "enter", timeout |-> timeout, start |-> 0, seen |-> 0,
                 ret |-> None, err |-> NoErr]
    /\ clock \in {0, 5000}

\* start = time.time()
VP_Enter ==
    /\ frame.pc = "enter"
    /\ frame' = [frame EXCEPT !.pc = "test", !.start = clock]
    /\ UNCHANGED <<track, result, calls, ctl, facade, app, clock>>

\* the loop condition reads the clock
VP_Test ==
    /\ frame.pc = "test"
    /\ frame' = vp_test(frame, clock)
    /\ UNCHANGED <<track, result, calls, ctl, facade, app, clock>>

\* spotify.is_playing(), which takes some time
VP_Poll ==
    /\ frame.pc = "poll"
    /\ \E env \in PollEnvs, took \in {0, MaxPollTime} :
        LET st == is_playing_call(SpotifyRPA_getattr(facade, "is_playing").obj, app, env)
        IN /\ frame' = vp_poll(frame, st)
           /\ calls' = Append(calls, Ev("poll", "is_playing", <<>>, Observed(st), {}))
           /\ app' = st.app
           /\ clock' = clock + took
    /\ UNCHANGED <<track, result, ctl, facade>>

\* time.sleep(0.3), which takes at least that long
VP_Sleep ==
    /\ frame.pc = "sleep"
    /\ frame' = [frame EXCEPT !.pc = "test"]
    /\ calls' = Append(calls, Ev("sleep", "sleep", <<>>, POLL_INTERVAL, {}))
    /\ \E over \in {0, MaxOversleep} : clock' = clock + POLL_INTERVAL + over
    /\ UNCHANGED <<track, result, ctl, facade, app>>

NextVerify == VP_Enter \/ VP_Test \/ VP_Poll \/ VP_Sleep \/ ExternalChange

\* the interpreter runs the function on: each step it is at is eventually taken
SpecVerify ==
    /\ InitVerify /\ [][NextVerify]_vars
    /\ WF_vars(VP_Enter) /\ WF_vars(VP_Test) /\ WF_vars(VP_Poll) /\ WF_vars(VP_Sleep)

\* ------------------------- play / pause / play_pause on Backend B, step by step

MaxCalls == 2
MaxExternal == 2

\* the channel while it works
QuietEnv == [failAt |-> 0, launchWorks |-> TRUE, stdout |-> <<>>]

\* the channel failing at its first call
FailingEnv == [failAt |-> 1, launchWorks |-> TRUE, stdout |-> <<>>]

\* the player is playing, as its window title shows it
Playing(a) == a.running /\ a.title # <<>> /\ a.title \notin IDLE_TITLES

\* a player that flips between paused and playing on each media toggle, and
\* shows it in its title
Toggled(a) ==
    [a EXCEPT !.title = IF Playing(a) THEN <<"S", "p", "o", "t", "i", "f", "y">>
                        ELSE <<"A">> \o SEP \o <<"T">> \o TITLE_TAIL]

\* play and pause with the test of the other
SendsAfter_swapped(op, playing) ==
    IF op = "play" THEN playing ELSE IF op = "pause" THEN ~playing ELSE TRUE

\* whether op goes on to send the toggle, is_playing() having returned playing:
\* play: if not self.is_playing(); pause: if self.is_playing(); play_pause: always
SendsAfter(op, playing) ==
    IF op = "play" THEN ~playing ELSE IF op = "pause" THEN playing ELSE TRUE

\* a Backend B controller facing a running player, no call in progress
InitToggle ==
    /\ track = NoObj
    /\ result = Idle
    /\ calls = <<>>
    /\ ctl = WindowsInit(FALSE, TRUE).obj
    /\ facade = NoObj
    /\ app \in {a \in AppStates : a.running /\ a.title # <<>>}
    /\ frame = [pc |-> "ready", op |-> "", saw |-> FALSE, done |-> 0, ext |-> 0]
    /\ clock = 0

\* play(), pause() or play_pause() is called
WP_Call ==
    /\ frame.pc = "ready" /\ frame.done < MaxCalls
    /\ \E op \in {"play", "pause", "play_pause"} :
        /\ frame' = [frame EXCEPT !.op = op,
                                  !.pc = IF op = "play_pause" THEN "send" ELSE "check"]
        /\ calls' = Append(calls, Ev("call", op, <<>>, 0, {}))
    /\ UNCHANGED <<track, result, ctl, facade, app, clock>>

\* self.is_playing(): the title is read, or the read fails and is taken for
\* no title
WP_Check ==
    /\ frame.pc = "check"
    /\ \E env \in {QuietEnv, FailingEnv} :
       \E st \in {is_playing(ctl, env, Start(app))} :
        /\ frame' = [frame EXCEPT !.saw = st.val.b,
                                  !.pc = IF SendsAfter(frame.op, st.val.b)
                                         THEN "send" ELSE "return"]
        /\ calls' = Append(calls, Ev("ret", "is_playing", <<>>,
                                     IF st.val.b THEN 1 ELSE 0,
                                     IF st.failed THEN {"failed"} ELSE {}))
    /\ UNCHANGED <<track, result, ctl, facade, app, clock>>

\* self._windows.send_keys("{MEDIA_PLAY_PAUSE}"): the toggle reaches the player
\* as it is now
WP_Send ==
    /\ frame.pc = "send"
    /\ frame' = [frame EXCEPT !.pc = "return"]
    /\ calls' = Append(calls, Ev("chan", "send_keys", <<"{MEDIA_PLAY_PAUSE}">>,
                                 IF Playing(app) THEN 1 ELSE 0, {}))
    /\ app' = Toggled(app)
    /\ UNCHANGED <<track, result, ctl, facade, clock>>

\* the method returns
WP_Return ==
    /\ frame.pc = "return"
    /\ frame' = [frame EXCEPT !.pc = "ready", !.done = @ + 1]
    /\ calls' = Append(calls, Ev("ret", frame.op, <<>>, 0, {}))
    /\ UNCHANGED <<track, result, ctl, facade, app, clock>>

\* the user, or the application itself, toggles playback
UserToggle ==
    /\ frame.ext < MaxExternal
    /\ frame' = [frame EXCEPT !.ext = @ + 1]
    /\ calls' = Append(calls, Ev("ext", "toggle", <<>>, 0, {}))
    /\ app' = Toggled(app)
    /\ UNCHANGED <<track, result, ctl, facade, clock>>

NextToggle == WP_Call \/ WP_Check \/ WP_Send \/ WP_Return \/ UserToggle

SpecToggle == InitToggle /\ [][NextToggle]_vars

\* ------------------------------------------------------ the commands (cli.py)

\* print(text): label is the fixed part of the line, s the part that varies
PrintLine(st, label, s) == Log(st, Ev("print", label, s, 0, {}))

\* What the application answers while one command runs: the channel's behaviour
\* and the text each kind of query prints.
CliEnvs ==
    [failAt : 0..MaxFacadeFailAt, launchWorks : BOOLEAN,
     state : {PLAYING, PAUSED, STOPPED},
     track : {Join(<<<<"N">>, <<"A">>, <<"L">>, <<"1", "2">>, URI>>, BAR)},
     position : {<<"1", ".", "5">>},
     volume : {<<"5", "0">>}]

\* the channel as one query of the command sees it
EnvFor(cenv, query) ==
    [failAt |-> cenv.failAt, launchWorks |-> cenv.launchWorks, stdout |-> cenv[query]]

\* print_status(spotify)
print_status(spotify, cenv, st) ==
    Then(get_player_state(spotify, EnvFor(cenv, "state"), st), LAMBDA s1 :
    LET state == s1.val.s
        s2 == PrintLine(s1, "Status: ", state)
    IN IF state = STOPPED THEN Return(s2, None)
       ELSE
    Then(get_current_track(spotify, EnvFor(cenv, "track"), s2), LAMBDA s3 :
    IF s3.val = None THEN Return(s3, None)
    ELSE
    LET tr == s3.val.track
        s4 == PrintLine(PrintLine(PrintLine(s3, "Track:  ", tr.name),
                                  "Artist: ", tr.artist), "Album:  ", tr.album)
    IN
    Then(get_player_position(spotify, EnvFor(cenv, "position"), s4), LAMBDA s5 :
    LET url == web_url(tr) IN
    Return(PrintLine(PrintLine(s5, "Time:   ", <<>>), "URL:    ",
                     IF url = None THEN <<"None">> ELSE url.s), None))))

\* verify_playback(spotify, timeout) run to its end inside a command, on a clock
\* that only the sleeps advance
RECURSIVE verify_playback(_, _, _, _, _)
verify_playback(spotify, cenv, st, f, now) ==
    CHOOSE r \in {IF tested.pc = "done" THEN Return(st, tested.ret)
                  ELSE Then(is_playing(spotify, EnvFor(cenv, "state"), st), LAMBDA s1 :
                       CHOOSE q \in {IF polled.pc = "done" THEN Return(s1, polled.ret)
                                     ELSE verify_playback(spotify, cenv,
                                                          Sleep(s1, POLL_INTERVAL),
                                                          [polled EXCEPT !.pc = "test"],
                                                          now + POLL_INTERVAL) :
                                     polled \in {vp_poll(tested, s1)}} : TRUE) :
                  tested \in {vp_test(f, now)}} : TRUE

DEFAULT_VERIFY_TIMEOUT == 3000

\* require_running(spotify)
\* require_running that lets every command through
require_running_lenient(spotify, cenv, st) ==
    Then(is_running(spotify, EnvFor(cenv, "state"), st), LAMBDA s1 :
    Return(s1, Bool(TRUE)))

\* require_running(spotify)
require_running(spotify, cenv, st) ==
    Then(is_running(spotify, EnvFor(cenv, "state"), st), LAMBDA s1 :
    IF ~s1.val.b
    THEN Return(PrintLine(s1, "Error: Spotify is not running.", <<>>), Bool(FALSE))
    ELSE Return(s1, Bool(TRUE)))

\* is_running() and then launch() or bring_to_front(), as two commands begin
LaunchOrFront(spotify, cenv, st, announce) ==
    Then(is_running(spotify, EnvFor(cenv, "state"), st), LAMBDA s1 :
    IF ~s1.val.b
    THEN launch(spotify, EnvFor(cenv, "state"),
                IF announce THEN PrintLine(s1, "Launching Spotify...", <<>>) ELSE s1,
                TRUE, None)
    ELSE bring_to_front(spotify, EnvFor(cenv, "state"), s1))

cmd_play_playlist(args, spotify, cenv, st) ==
    LET playlist_name == args.text
        s0 == PrintLine(st, "Launching Spotify...", <<>>)
    IN
    Then(LaunchOrFront(spotify, cenv, s0, FALSE), LAMBDA s1 :
    LET s2 == PrintLine(PrintLine(s1, "Spotify is ready.", <<>>),
                        "Searching for playlist: ", playlist_name)
    IN
    Then(play_playlist_by_name(spotify, EnvFor(cenv, "state"), s2, playlist_name,
                               TRUE, 2000), LAMBDA s3 :
    LET s4 == Sleep(PrintLine(s3, "Waiting for playback to start...", <<>>), 2000)
        frame0 == [pc |-> "test", timeout |-> DEFAULT_VERIFY_TIMEOUT, start |-> 0,
                   seen |-> 0, ret |-> None, err |-> NoErr]
    IN
    Then(verify_playback(spotify, cenv, s4, frame0, 0), LAMBDA s5 :
    IF s5.val.b
    THEN Then(print_status(spotify, cenv,
                           PrintLine(PrintLine(s5, "Playback started successfully!",
                                               <<>>), "", <<>>)),
              LAMBDA s6 : Return(s6, Int_(0)))
    ELSE Return(PrintLine(PrintLine(s5, "Warning: Could not verify playback started.",
                                    <<>>),
                          "The playlist may still be loading. Check Spotify manually.",
                          <<>>), Int_(1)))))

cmd_search(args, spotify, cenv, st) ==
    LET query == args.text IN
    Then(LaunchOrFront(spotify, cenv, st, TRUE), LAMBDA s1 :
    Then(search(spotify, EnvFor(cenv, "state"),
                PrintLine(s1, "Searching for: ", query), query, TRUE), LAMBDA s2 :
    Return(PrintLine(s2, "Search results should now be visible in Spotify.", <<>>),
           Int_(0))))

\* the shape cmd_play, cmd_next and cmd_prev share
TransportThenStatus(spotify, cenv, s_done, line) ==
    Then(s_done, LAMBDA s2 :
    Then(print_status(spotify, cenv, Sleep(PrintLine(s2, line, <<>>), 500)),
         LAMBDA s3 : Return(s3, Int_(0))))

cmd_play(args, spotify, cenv, st) ==
    Then(require_running(spotify, cenv, st), LAMBDA s1 :
    IF ~s1.val.b THEN Return(s1, Int_(1))
    ELSE TransportThenStatus(spotify, cenv, play(spotify, EnvFor(cenv, "state"), s1),
                             "Playback started."))

cmd_pause(args, spotify, cenv, st) ==
    Then(require_running(spotify, cenv, st), LAMBDA s1 :
    IF ~s1.val.b THEN Return(s1, Int_(1))
    ELSE Then(pause(spotify, EnvFor(cenv, "state"), s1), LAMBDA s2 :
         Return(PrintLine(s2, "Playback paused.", <<>>), Int_(0))))

cmd_next(args, spotify, cenv, st) ==
    Then(require_running(spotify, cenv, st), LAMBDA s1 :
    IF ~s1.val.b THEN Return(s1, Int_(1))
    ELSE TransportThenStatus(spotify, cenv,
                             next_track(spotify, EnvFor(cenv, "state"), s1),
                             "Skipped to next track."))

cmd_prev(args, spotify, cenv, st) ==
    Then(require_running(spotify, cenv, st), LAMBDA s1 :
    IF ~s1.val.b THEN Return(s1, Int_(1))
    ELSE TransportThenStatus(spotify, cenv,
                             previous_track(spotify, EnvFor(cenv, "state"), s1),
                             "Went to previous track."))

cmd_status(args, spotify, cenv, st) ==
    Then(is_running(spotify, EnvFor(cenv, "state"), st), LAMBDA s1 :
    IF ~s1.val.b THEN Return(PrintLine(s1, "Spotify is not running.", <<>>), Int_(0))
    ELSE Then(print_status(spotify, cenv, s1), LAMBDA s2 : Return(s2, Int_(0))))

cmd_volume(args, spotify, cenv, st) ==
    Then(require_running(spotify, cenv, st), LAMBDA s1 :
    IF ~s1.val.b THEN Return(s1, Int_(1))
    ELSE IF args.level = None
    THEN Then(get_volume(spotify, EnvFor(cenv, "volume"), s1), LAMBDA s2 :
         Return(PrintLine(s2, "Current volume: ", <<>>), Int_(0)))
    ELSE Then(set_volume(spotify, EnvFor(cenv, "volume"), s1, args.level.n), LAMBDA s2 :
         Return(PrintLine(s2, "Volume set to: ", <<>>), Int_(0))))

\* args.func(args, spotify)
RunCommand(args, spotify, cenv, st) ==
    CASE args.command = "play-playlist" -> cmd_play_playlist(args, spotify, cenv, st)
      [] args.command = "search" -> cmd_search(args, spotify, cenv, st)
      [] args.command = "play" -> cmd_play(args, spotify, cenv, st)
      [] args.command = "pause" -> cmd_pause(args, spotify, cenv, st)
      [] args.command = "next" -> cmd_next(args, spotify, cenv, st)
      [] args.command = "prev" -> cmd_prev(args, spotify, cenv, st)
      [] args.command = "status" -> cmd_status(args, spotify, cenv, st)
      [] args.command = "volume" -> cmd_volume(args, spotify, cenv, st)

\* try: <statement> except ...: the handlers, F, see how the statement ended,
\* whether it raised or not
Ended(st, F(_)) == CHOOSE r \in {F(s) : s \in {st}} : TRUE

\* the exception classes an except clause naming cls catches
Caught(cls) ==
    IF cls = "AutomationError" THEN {"AutomationError", "AppleScriptError"} ELSE {cls}

\* the handler of an except clause: print(f"Error: {e}"); return 1
ErrorExit(st) ==
    Return(PrintLine([st EXCEPT !.err = NoErr, !.msg = <<>>], "Error: ", st.msg),
           Int_(1))

\* main(), after parse_args() gave args; an exception left in err is one that
\* no except clause of main caught
main(args, platform_system, WINDOWS_AVAILABLE, cenv, a) ==
    IF args.command = ""
    THEN Return(PrintLine(Start(a), "usage", <<>>), Int_(0))
    ELSE
    LET current_platform == get_platform(platform_system)
        s1 == IF args.debug
              THEN PrintLine(Start(a), "[Platform] Detected: ", current_platform)
              ELSE Start(a)
        made == SpotifyRPA_init(platform_system, args.debug, WINDOWS_AVAILABLE)
    IN IF made.err \in Caught("PlatformNotSupportedError")
       THEN ErrorExit(Raise(s1, made.err, made.msg))
       ELSE IF made.err # NoErr THEN Raise(s1, made.err, made.msg)
       ELSE Ended(RunCommand(args, made.controller, cenv, s1), LAMBDA s2 :
            IF s2.err \in Caught("AutomationError") \cup Caught("NotImplementedError")
            THEN ErrorExit(s2)
            ELSE IF s2.err \in Caught("KeyboardInterrupt")
            THEN Return(PrintLine([s2 EXCEPT !.err = NoErr, !.msg = <<>>],
                                  "Interrupted.", <<>>), Int_(130))
            ELSE s2)

\* the command lines considered
Argvs ==
    {[command |-> c, text |-> <<>>, level |-> None, debug |-> d] :
        c \in {"", "play", "pause", "next", "prev", "status", "volume"}, d \in BOOLEAN}
    \cup {[command |-> c, text |-> <<"a", "b">>, level |-> None, debug |-> FALSE] :
            c \in {"play-playlist", "search"}}
    \cup {[command |-> "volume", text |-> <<>>, level |-> Int_(level), debug |-> FALSE] :
            level \in {50, 100 + VolMargin}}

\* the hosts the command is run on
Hosts ==
    {<<"D", "a", "r", "w", "i", "n">>, <<"W", "i", "n", "d", "o", "w", "s">>,
     <<"L", "i", "n", "u", "x">>}

\* sys.exit(main()): one run of the program, whose objects are gone when it ends
Main ==
    /\ result = Idle /\ ctl = NoObj /\ facade = NoObj
    /\ \E args \in Argvs, system \in Hosts, available \in BOOLEAN, cenv \in CliEnvs :
       \E st \in {main(args, system, available, cenv, app)} :
        /\ result' = Outcome("main",
                             [args |-> args, system |-> system,
                              available |-> available, env |-> cenv],
                             st.err, st.msg, IF Live(st) THEN st.val ELSE None,
                             st.failed, app)
        /\ calls' = st.trace
        /\ app' = st.app
    /\ UNCHANGED <<track, ctl, facade, frame, clock>>

Next ==
    \/ CreateController \/ CreateFacade \/ FacadeCall \/ CallGetPlatform \/ Main \/ Exit
    \/ ExternalChange
    \/ TakeResult
    \/ CallLaunch \/ CallQuit \/ CallIsRunning \/ CallBringToFront
    \/ CallPlay \/ CallPause \/ CallPlayPause \/ CallNextTrack \/ CallPreviousTrack
    \/ CallSetVolume \/ CallGetVolume \/ CallGetPlayerState \/ CallIsPlaying
    \/ CallGetPlayerPosition \/ CallSetPlayerPosition \/ CallGetCurrentTrack
    \/ CallPlayTrack \/ CallIsShuffling \/ CallIsRepeating \/ CallSetShuffling
    \/ CallSetRepeating \/ CallSetUiDelay \/ CallKeystroke \/ CallKeyCode
    \/ CallTypeText \/ CallOpenSearch \/ CallSearch \/ CallSelectFirstSearchResult
    \/ CallNavigateToFirstSong \/ CallPlayPlaylistByName \/ CallSearchAndPlay
    \/ CallToggleShuffle \/ CallToggleRepeat

Spec == Init /\ [][Next]_vars

\* -------------------------------------------------------------- properties

IsCall(e, name) == e.ev = "call" /\ e.name = name
IsChan(e) == e.ev = "chan"

\* the channel calls of the last operation
ChanCalls == SelectSeq(calls, IsChan)

\* the positions in the last operation's trace where method name was entered
CallsOf(name) == {i \in 1..Len(calls) : IsCall(calls[i], name)}

\* the names of the method entries among `names`, in the order they happened
StepNames(names) ==
    LET Wanted(e) == e.ev = "call" /\ e.name \in names
        sel == SelectSeq(calls, Wanted)
    IN [i \in 1..Len(sel) |-> sel[i].name]

\* play_playlist_by_name(name) with default arguments, begun with the application
\* not running, ran to its end with no step raising
DefaultPlaylistRun ==
    /\ result.op = "play_playlist_by_name"
    /\ result.args.play_first_song /\ result.args.search_delay = 2000
    /\ ~result.before.running
    /\ result.err = NoErr /\ ~result.failed

PlaylistSteps ==
    StepNames({"launch", "search", "select_first_search_result",
               "_press_down_arrow", "_press_return"})

PlaylistOrder ==
    /\ PlaylistSteps = <<"launch", "search", "select_first_search_result",
                         "_press_down_arrow", "_press_return", "_press_return">>
    /\ \A i \in CallsOf("search") :
        calls[i].s = result.args.playlist_name /\ calls[i].n = 0

\* C1 as stated: the order launch, search(name, wait_for_results=false),
\* Down-Arrow, Return, final Return, and bring_to_front never called.
C1_NeverBringsToFront ==
    DefaultPlaylistRun => PlaylistOrder /\ CallsOf("bring_to_front") = {}

\* C1 as amended: the same order holds; bring_to_front is not called by the
\* launch-or-focus step (never before search is entered) but is called after it,
\* by the open_search that search begins with.
C1_Order ==
    DefaultPlaylistRun =>
        /\ PlaylistOrder
        /\ CallsOf("bring_to_front") # {}
        /\ \A i \in CallsOf("bring_to_front") : \E j \in CallsOf("search") : j < i
        /\ \A i \in CallsOf("open_search") : IsCall(calls[i + 1], "bring_to_front")

C1_Witness ==
    /\ DefaultPlaylistRun
    /\ ctl.cls = WIN_CLASS
    /\ Len(ChanCalls) > 10

OutOfRange(level) == level < 0 \/ level > 100

\* C2 as stated: on every backend an out-of-range level is a validation failure
\* with no channel call.
C2_ValidationEverywhere ==
    (result.op = "set_volume" /\ OutOfRange(result.args.level)) =>
        result.err = "ValueError" /\ ChanCalls = <<>>

\* C2 as amended: an out-of-range level fails with no channel call on every
\* backend, with the validation failure on Backend A and the
\* unsupported-operation error on Backend B; no set-volume command ever carries
\* a level outside [0,100].
C2_OutOfRangeRejected ==
    result.op = "set_volume" =>
        /\ OutOfRange(result.args.level) =>
            /\ ChanCalls = <<>>
            /\ result.err = IF ctl.cls = MAC_CLASS THEN "ValueError"
                            ELSE "NotImplementedError"
        /\ \A i \in 1..Len(ChanCalls) :
            ChanCalls[i].name = "set sound volume" =>
                (0 <= ChanCalls[i].n /\ ChanCalls[i].n <= 100)

C2_Witness ==
    /\ result.op = "set_volume" /\ result.args.level = 101
    /\ ctl.cls = MAC_CLASS /\ result.err = "ValueError"

\* C3: get_player_state() returns one of "playing", "paused", "stopped" whatever
\* the channel answers.
C3_StateIsLiteral ==
    (result.op = "get_player_state" /\ result.err = NoErr) =>
        result.val.s \in {PLAYING, PAUSED, STOPPED}

\* C4: an operation during which a channel call failed in transport does not
\* return normally.
C4_TransportFailureRaises ==
    result.failed => result.err # NoErr

\* C5: get_current_track() raises no error of its own: with the channel working
\* it returns a TrackInfo or absent.
C5_AbsentNotError ==
    (result.op = "get_current_track" /\ ~result.failed) =>
        result.err = NoErr /\ result.val.t \in {"none", "track"}

UnsupportedOnWindows ==
    {"get_volume", "set_volume", "get_player_position", "set_player_position",
     "play_track", "is_shuffling", "is_repeating", "set_shuffling", "set_repeating"}

NoChanCall(trace) == \A i \in 1..Len(trace) : ~IsChan(trace[i])

\* C6: on Backend B each of the nine unsupported operations fails, for every
\* argument and application state, with the unsupported-operation error, makes
\* no channel call and changes neither the controller nor the application.
C6_UnsupportedOnWindows ==
    [][(result'.op \in UnsupportedOnWindows /\ result.op = "idle"
            /\ ctl.cls = WIN_CLASS) =>
        /\ result'.err = "NotImplementedError"
        /\ NoChanCall(calls')
        /\ ctl' = ctl /\ facade' = facade /\ app' = app]_vars

C6_Witness ==
    /\ result.op = "set_player_position" /\ ctl.cls = WIN_CLASS
    /\ result.err = "NotImplementedError" /\ result.before.running

\* the send_keys calls of the last operation that carry `keys`
Sent(keys) ==
    {i \in 1..Len(ChanCalls) :
        ChanCalls[i].name = "send_keys" /\ ChanCalls[i].s = keys}

\* C7: a Backend B keyboard primitive that returns normally has sent the key it
\* was asked for with the modifiers it was asked for.
C7_NoSilentNoOp ==
    (result.op \in {"_keystroke", "_key_code"} /\ ctl.cls = WIN_CLASS
        /\ result.err = NoErr) =>
        /\ result.op = "_key_code" =>
            /\ KeyMapGet(result.args.code) # ""
            /\ result.args.modifiers = {}
            /\ Sent(<<KeyMapGet(result.args.code)>>) # {}
        /\ result.op = "_keystroke" =>
            /\ result.args.modifiers \subseteq {"control"}
            /\ Sent(IF "control" \in result.args.modifiers
                    THEN <<"{Ctrl}", result.args.key>>
                    ELSE <<result.args.key>>) # {}

ColonAt(u) == {i \in 1..Len(u) : u[i] = ":"}
FirstColon(u) == CHOOSE i \in ColonAt(u) : \A j \in ColonAt(u) : i <= j
LastColon(u) == CHOOSE i \in ColonAt(u) : \A j \in ColonAt(u) : j <= i

\* spotify_url is "spotify:<type>:<id>": two colons, "spotify" before the first
IsSpotifyUri(u) ==
    /\ Cardinality(ColonAt(u)) = 2
    /\ SubSeq(u, 1, FirstColon(u) - 1) = SPOTIFY

\* C8: web_url is "https://open.spotify.com/<type>/<id>" exactly when spotify_url
\* is "spotify:<type>:<id>" (three ':'-separated fields, the first "spotify"), and
\* absent for every other spotify_url; no error; only spotify_url decides it.
C8_WebUrl ==
    result.op = "web_url" =>
        LET u == track.spotify_url IN
        /\ result.err = NoErr
        /\ IF IsSpotifyUri(u)
           THEN /\ result.val.t = "str"
                /\ result.val.s =
                       WEB_PREFIX \o SubSeq(u, FirstColon(u) + 1, LastColon(u) - 1)
                                  \o <<"/">> \o Drop(u, LastColon(u))
           ELSE result.val.t = "none"

\* a spotify: uri with a non-empty type and id has been converted
C8_Witness ==
    /\ result.op = "web_url"
    /\ track.spotify_url = SPOTIFY \o <<":">> \o TRACK \o <<":", "a", "1">>
    /\ result.val.t = "str"


NOT_SUPPORTED == <<"n", "o", "t", " ", "s", "u", "p", "p", "o", "r", "t", "e", "d">>

\* C9: create_spotify_controller fails with the platform-not-supported error for
\* every tag other than "macos" and "windows", the message holds the tag and the
\* words "not supported", and no controller exists afterwards; for a supported
\* tag it never raises that error.
C9_UnsupportedTag ==
    result.op = "create_spotify_controller" =>
        IF result.args.platform_name \notin {MACOS, WINDOWS}
        THEN /\ result.err = "PlatformNotSupportedError"
             /\ Contains(result.msg, result.args.platform_name)
             /\ Contains(result.msg, NOT_SUPPORTED)
             /\ ctl = NoObj
        ELSE result.err # "PlatformNotSupportedError"

C9_Witness ==
    /\ result.op = "create_spotify_controller"
    /\ result.args.platform_name = LINUX
    /\ result.err = "PlatformNotSupportedError"

\* every attribute the constructors set is there
FullyInitialised(c) ==
    /\ HasAttr(c, "debug") /\ HasAttr(c, "_ui_delay")
    /\ c.cls = WIN_CLASS => HasAttr(c, "_windows")

\* C10: construction yields a fully initialised object (debug flag, default UI
\* delay, Backend B's handle, the facade's controller) or raises a
\* SpotifyRPAError and yields no object; no state holds a facade without a
\* controller or a Backend B controller without its handle.
C10_ConstructionAtomic ==
    /\ ctl # NoObj => FullyInitialised(ctl)
    /\ facade # NoObj =>
        /\ HasAttr(facade, "_controller") /\ HasAttr(facade, "platform")
        /\ ctl # NoObj /\ facade.debug = ctl.debug
    /\ result.op \in {"create_spotify_controller", "SpotifyRPA"} =>
        IF result.err = NoErr
        THEN /\ ctl # NoObj
             /\ ctl.debug = result.args.debug
             /\ ctl._ui_delay = DEFAULT_UI_DELAY
             /\ result.op = "SpotifyRPA" => facade # NoObj
        ELSE /\ IsInstance(result.err, "SpotifyRPAError")
             /\ ctl = NoObj /\ facade = NoObj

C10_Witness ==
    /\ result.op = "SpotifyRPA"
    /\ result.err = "AutomationError"
    /\ ~result.args.available
    /\ ctl = NoObj /\ facade = NoObj


SameIgnoringCase(a, b) ==
    Len(a) = Len(b) /\ \A i \in 1..Len(a) : LowerChar(a[i]) = LowerChar(b[i])

C18_DurationSeconds ==
    [][result'.op = "duration_seconds" =>
        /\ track' = track
        /\ result'.err = NoErr /\ result'.val.t = "float"
        /\ result'.val.num * 1000 = result'.val.den * track.duration_ms
        /\ result'.val.den > 0
        /\ track.duration_ms = 0 => result'.val.num = 0]_vars

C18_Witness ==
    /\ result.op = "duration_seconds"
    /\ track.duration_ms = 1500
    /\ result.val.num = 3 /\ result.val.den = 2


\* the positions in the last operation's trace where method name returned
ReturnsOf(name) ==
    {i \in 1..Len(calls) : calls[i].ev = "ret" /\ calls[i].name = name}

\* the one query each backend has for the player state
StateQuery == IF ctl.cls = MAC_CLASS THEN "player state as string" ELSE "get_element"

\* C12: is_playing() is true exactly when the get_player_state() it called
\* returned "playing"; it calls get_player_state() once, which queries the
\* channel once, and it sends no command and leaves the application as it was.
C12_IsPlaying ==
    (result.op = "is_playing" /\ result.err = NoErr) =>
        /\ Cardinality(CallsOf("get_player_state")) = 1
        /\ Cardinality(ReturnsOf("get_player_state")) = 1
        /\ \A i \in ReturnsOf("get_player_state") :
            result.val.b <=> calls[i].s = PLAYING
        /\ Len(ChanCalls) = 1 /\ ChanCalls[1].name = StateQuery
        /\ app = result.before

C12_Witness ==
    /\ result.op = "is_playing" /\ result.err = NoErr
    /\ ctl.cls = WIN_CLASS
    /\ result.val.b


\* a Backend B query of the window title has returned
TitleQuery(op) ==
    result.op = op /\ result.err = NoErr /\ ctl.cls = WIN_CLASS

\* the window title the query read; absent when there is no window or the read
\* failed
TitleRead ==
    IF result.before.running /\ ~result.failed THEN Str(result.before.title) ELSE None

NoWindowOrEmpty == TitleRead.t = "none" \/ TitleRead.s = <<>>
IdleTitle == ~NoWindowOrEmpty /\ TitleRead.s \in IDLE_TITLES

\* title begins with artist, " - ", name, " - Spotify"
Decomposes(title, artist, name) ==
    /\ artist # <<>> /\ name # <<>>
    /\ StartsWith(title, artist \o SEP \o name \o TITLE_TAIL)

Pieces(title) ==
    {SubSeq(title, i, j) : i \in 1..Len(title), j \in 1..Len(title)}

Decompositions(title) ==
    {d \in Pieces(title) \X Pieces(title) : Decomposes(title, d[1], d[2])}

TrackFromTitle(artist, name) ==
    [t |-> "track", track |-> TrackInfo(name, artist, <<>>, 0, <<>>)]

\* C13 as stated: a track is returned only for a title that is exactly
\* "<artist> - <title> - Spotify" with separator-free artist and title; every
\* other title that is not empty and not idle gives ("playing", absent).
C13_SeparatorFreeOnly ==
    /\ TitleQuery("get_player_state") =>
        result.val.s = IF NoWindowOrEmpty THEN STOPPED
                       ELSE IF IdleTitle THEN PAUSED ELSE PLAYING
    /\ TitleQuery("get_current_track") =>
        IF NoWindowOrEmpty \/ IdleTitle THEN result.val = None
        ELSE LET title == TitleRead.s
                 exact == {d \in Decompositions(title) :
                             /\ title = d[1] \o SEP \o d[2] \o TITLE_TAIL
                             /\ ~Contains(d[1], SEP) /\ ~Contains(d[2], SEP)}
             IN IF exact # {}
                THEN \E d \in exact : result.val = TrackFromTitle(d[1], d[2])
                ELSE result.val = None

\* C13 as amended: the state is "stopped" for no window or an empty title,
\* "paused" for an idle literal and "playing" otherwise; a track is returned
\* exactly when the title is not empty, not idle and begins with
\* "<artist> - <name> - Spotify" for some non-empty artist and name, and then it
\* holds the shortest such artist and, for that artist, the shortest such name,
\* with album "", duration 0 and source id "".
C13_TitleFunction ==
    /\ TitleQuery("get_player_state") =>
        result.val.s = IF NoWindowOrEmpty THEN STOPPED
                       ELSE IF IdleTitle THEN PAUSED ELSE PLAYING
    /\ TitleQuery("get_current_track") =>
        IF NoWindowOrEmpty \/ IdleTitle THEN result.val = None
        ELSE LET title == TitleRead.s IN
             IF Decompositions(title) = {} THEN result.val = None
             ELSE \E d \in Decompositions(title) :
                    /\ result.val = TrackFromTitle(d[1], d[2])
                    /\ \A o \in Decompositions(title) :
                        \/ Len(d[1]) < Len(o[1])
                        \/ Len(d[1]) = Len(o[1]) /\ Len(d[2]) <= Len(o[2])

C13_Witness ==
    /\ TitleQuery("get_current_track")
    /\ TitleRead = Str(<<"A">> \o SEP \o <<"T">> \o SEP \o <<"U">> \o TITLE_TAIL)
    /\ result.val = TrackFromTitle(<<"A">>, <<"T">> \o SEP \o <<"U">>)


\* the request by which launch() asks the operating system for the application
LaunchRequest == IF ctl.cls = MAC_CLASS THEN "activate" ELSE "windows_run"

NeverLaunching ==
    {"quit", "is_running", "bring_to_front", "play", "pause", "play_pause",
     "next_track", "previous_track", "set_volume", "get_volume", "get_player_state",
     "is_playing", "get_player_position", "set_player_position", "get_current_track",
     "play_track", "is_shuffling", "is_repeating", "set_shuffling", "set_repeating",
     "_keystroke", "_key_code", "_type_text", "open_search", "search",
     "select_first_search_result", "navigate_to_first_song", "search_and_play",
     "toggle_shuffle", "toggle_repeat"}

\* C15: an operation other than launch() and play_playlist_by_name(), called with
\* the application not running, issues no launch request and leaves the
\* application not running.
C15_OnlyLaunchStarts ==
    (result.op \in NeverLaunching /\ ~result.before.running) =>
        /\ \A i \in 1..Len(ChanCalls) : ChanCalls[i].name # LaunchRequest
        /\ ~app.running


\* how many methods other than those in `through` are open just before position i
\* of the last operation's trace
Depth(i, through) ==
    Cardinality({j \in 1..(i - 1) : calls[j].ev = "call" /\ calls[j].name \notin through})
    - Cardinality({j \in 1..(i - 1) : calls[j].ev = "ret" /\ calls[j].name \notin through})

\* the events at the positions I, in order
Pick(I) ==
    [k \in 1..Cardinality(I) |->
        calls[CHOOSE i \in I : Cardinality({j \in I : j < i}) = k - 1]]

\* what a method does itself (it calls, it sleeps, it uses the channel): the
\* events at depth d between positions lo and hi, looking through the methods
\* in `through`
Direct(lo, hi, d, through) ==
    Pick({i \in (lo + 1)..(hi - 1) :
            /\ calls[i].ev \in {"call", "sleep", "chan"}
            /\ calls[i].name \notin through
            /\ Depth(i, through) = d})

Called(name, s, n, mods) == Ev("call", name, s, n, mods)
Slept(ms) == Ev("sleep", "sleep", <<>>, ms, {})

CommandModifier == IF ctl.cls = MAC_CLASS THEN "command" ELSE "control"

\* C20: search(query, wait_for_results) does, in this order and nothing else:
\* bring_to_front, the chord command-modifier+"k", a wait of the UI delay, a
\* wait of 0.3 s, one typing of the whole query, and a wait of 1.5 s exactly
\* when wait_for_results.
C20_SearchOrder ==
    (result.op = "search" /\ result.err = NoErr) =>
        /\ Direct(1, Len(calls), 1, {"open_search"}) =
              <<Called("bring_to_front", <<>>, 0, {}),
                Called("_keystroke", <<"k">>, 0, {CommandModifier}),
                Slept(ctl._ui_delay),
                Slept(300),
                Called("_type_text", result.args.query, DELAY_PER_CHAR, {})>>
              \o (IF result.args.wait_for_results THEN <<Slept(1500)>> ELSE <<>>)
        /\ Cardinality(CallsOf("_type_text")) = 1
        /\ \A i \in CallsOf("_type_text") : \E j \in CallsOf("_keystroke") : j < i

C20_Witness ==
    /\ result.op = "search" /\ result.err = NoErr
    /\ ~result.args.wait_for_results
    /\ ctl.cls = WIN_CLASS /\ ctl._ui_delay = 0

\* the one position where method name was entered, and where it returned
CallOf(name) == CHOOSE i \in CallsOf(name) : TRUE
ReturnOf(name) == CHOOSE i \in ReturnsOf(name) : TRUE

\* C19: play_playlist_by_name first asks is_running() and calls launch() when
\* the answer is false and bring_to_front() when it is true (never launch()
\* then); it then runs search(name, wait_for_results=false) with no 1.5 s wait,
\* waits search_delay, runs select-first-result (wait 0.3, Down-Arrow, wait 0.2,
\* Return, wait UI delay), waits 1.0 s and, only if play_first_song, waits 0.5 s
\* and presses Return; the query is typed once, Down-Arrow pressed once, and
\* Return pressed twice with play_first_song and once without.
C19_PlaylistProcedure ==
    (result.op = "play_playlist_by_name" /\ result.err = NoErr) =>
        LET said_running == calls[ReturnOf("is_running")].n = 1 IN
        /\ Cardinality(ReturnsOf("is_running")) = 1
        /\ Direct(1, Len(calls), 1, {}) =
              <<Called("is_running", <<>>, 0, {}),
                IF said_running THEN Called("bring_to_front", <<>>, 0, {})
                ELSE Called("launch", <<>>, 0, {}),
                Called("search", result.args.playlist_name, 0, {}),
                Slept(result.args.search_delay),
                Called("select_first_search_result", <<>>, 0, {}),
                Slept(1000)>>
              \o (IF result.args.play_first_song
                  THEN <<Slept(500), Called("_press_return", <<>>, 0, {})>>
                  ELSE <<>>)
        /\ said_running => CallsOf("launch") = {}
        /\ Direct(CallOf("search"), ReturnOf("search"), 2, {}) =
              <<Called("open_search", <<>>, 0, {}), Slept(300),
                Called("_type_text", result.args.playlist_name, DELAY_PER_CHAR, {})>>
        /\ Direct(CallOf("select_first_search_result"),
                  ReturnOf("select_first_search_result"), 2, {}) =
              <<Slept(300), Called("_press_down_arrow", <<>>, 0, {}), Slept(200),
                Called("_press_return", <<>>, 0, {}), Slept(ctl._ui_delay)>>
        /\ Cardinality(CallsOf("_type_text")) = 1
        /\ Cardinality(CallsOf("_press_down_arrow")) = 1
        /\ Cardinality(CallsOf("_press_return")) =
              IF result.args.play_first_song THEN 2 ELSE 1

C19_Witness ==
    /\ result.op = "play_playlist_by_name" /\ result.err = NoErr
    /\ result.before.running /\ ~result.failed
    /\ ~result.args.play_first_song /\ result.args.search_delay = 0
    /\ CallsOf("launch") = {} /\ Cardinality(CallsOf("_press_return")) = 1


\* C11: the facade builds one controller at construction, from get_platform()'s
\* tag and the caller's debug flag; every later call through the facade does
\* what the same call on that controller does (same steps, same channel calls,
\* same result or error, same effect on the application and the controller),
\* and leaves the facade, its platform tag and its controller's identity alone.
C11_FacadeDelegates ==
    [][/\ (result'.op = "SpotifyRPA" /\ result'.err = NoErr) =>
            /\ facade'.platform = get_platform(result'.args.system)
            /\ facade'.debug = result'.args.debug
            /\ ctl' # NoObj
            /\ ctl' = create_spotify_controller(facade'.platform, result'.args.debug,
                                                result'.args.available).obj
       /\ (result'.op = "facade" /\ result.op = "idle") =>
            LET r == result'.args.request
                direct == Invoke(ctl, r, result'.args.env, Start(app))
            IN /\ calls' = direct.trace
               /\ result'.err = direct.err /\ result'.msg = direct.msg
               /\ result'.val = IF Live(direct) THEN direct.val ELSE None
               /\ app' = direct.app
               /\ ctl' = After(ctl, r)
               /\ facade' = facade]_vars

C11_Witness ==
    /\ result.op = "facade"
    /\ result.args.request.name = "search" /\ result.err = NoErr
    /\ ctl._ui_delay = 0
    /\ \E i \in 1..Len(calls) : calls[i] = Ev("sleep", "sleep", <<>>, 0, {})


PollCount == Cardinality({i \in 1..Len(calls) : calls[i].ev = "poll"})

\* what holds of verify_playback's polls at every moment of a call
VerifyPolls ==
    /\ \A i \in 1..Len(calls) :
        IF i % 2 = 1 THEN calls[i].ev = "poll" ELSE calls[i] = Slept(300)
    /\ \A i \in 1..(Len(calls) - 1) : calls[i].ev = "poll" => calls[i].n = 0
    /\ frame.pc = "poll" => frame.seen - frame.start < frame.timeout
    /\ PollCount >= 1 => (PollCount - 1) * 300 < frame.timeout
    /\ frame.pc = "done" =>
        IF frame.err # NoErr
        THEN frame.ret = None /\ calls[Len(calls)].n = 2
        ELSE IF frame.ret = Bool(TRUE)
             THEN calls[Len(calls)].ev = "poll" /\ calls[Len(calls)].n = 1
             ELSE /\ frame.ret = Bool(FALSE)
                  /\ \A i \in 1..Len(calls) : calls[i].ev = "poll" => calls[i].n = 0
                  /\ Len(calls) % 2 = 0
                  /\ frame.seen - frame.start >= frame.timeout

\* C17: verify_playback always ends; it returns True at the first poll that
\* finds is_playing() true and polls no more; it returns False exactly when
\* every poll, each made while the elapsed time was below timeout, found it
\* false; one 0.3 s sleep separates consecutive polls, and the timeout bounds
\* the number of polls.
C17_VerifyPlayback ==
    /\ [](frame.pc # "none" => VerifyPolls)
    /\ <>(frame.pc = "done")

C17_Witness ==
    /\ frame.pc = "done" /\ frame.ret = Bool(TRUE)
    /\ PollCount = 3 /\ Len(calls) = 5
    /\ clock - frame.start < frame.timeout

\* the exception classes of the core's failure kinds: unsupported platform,
\* unsupported operation, transport/automation failure, validation failure
CoreFailures ==
    {"PlatformNotSupportedError", "NotImplementedError", "AutomationError",
     "AppleScriptError", "ValueError"}

\* C16: whatever the command, a core failure in building the facade or in
\* running the command never leaves main() as an uncaught exception: main()
\* prints the error text and returns a non-zero status.
C16_NoFailureEscapesMain ==
    result.op = "main" =>
        /\ result.err \notin CoreFailures
        /\ \A i \in 1..Len(calls) :
            calls[i].ev = "print" /\ calls[i].name = "Error: " =>
                result.val.t = "int" /\ result.val.n # 0


\* what play() does itself once entered: the command on Backend A; on Backend B
\* the state query and, unless the state it returned is "playing", the toggle
PlayItself ==
    IF ctl.cls = MAC_CLASS THEN <<Ev("chan", "play", <<>>, 0, {})>>
    ELSE <<Called("get_player_state", <<>>, 0, {})>>
         \o (IF calls[Len(calls)].ev = "ret" /\ calls[Len(calls)].s = PLAYING
             THEN <<>>
             ELSE <<Ev("chan", "send_keys", <<"{MEDIA_PLAY_PAUSE}">>, 0, {})>>)

\* C21: search_and_play(query) does search(query) with the 1.5 s wait for
\* results, then select_first_search_result(), then waits 0.5 s, then calls
\* play() once, as the last thing it does; no play() comes before the Return
\* press, and on Backend B play() sends the media toggle exactly when the state
\* read from the title at that moment is not "playing".
C21_SearchAndPlay ==
    (result.op = "search_and_play" /\ result.err = NoErr) =>
        /\ Direct(1, Len(calls) + 1, 1, {}) =
              <<Called("search", result.args.query, 1, {}),
                Called("select_first_search_result", <<>>, 0, {}),
                Slept(500), Called("play", <<>>, 0, {})>>
        /\ Direct(CallOf("play"), Len(calls) + 1, 2, {"is_playing"}) = PlayItself
        /\ calls[ReturnOf("search") - 1] = Slept(1500)
        /\ Cardinality(CallsOf("play")) = 1
        /\ Cardinality(CallsOf("_press_return")) = 1
        /\ \A i \in CallsOf("_press_return"), j \in ReturnsOf("_press_return") :
            i < j /\ j < CallOf("play")
        /\ \A i \in (CallOf("play") + 1)..Len(calls) :
            calls[i].ev # "sleep" /\ (calls[i].ev = "call" =>
                calls[i].name \in {"is_playing", "get_player_state"})
        /\ ctl.cls = WIN_CLASS =>
            (Sent(<<"{MEDIA_PLAY_PAUSE}">>) = {}
                <=> calls[Len(calls)] = Ev("ret", "get_player_state", PLAYING, 0, {}))

C21_Witness ==
    /\ result.op = "search_and_play" /\ result.err = NoErr
    /\ ctl.cls = WIN_CLASS /\ Sent(<<"{MEDIA_PLAY_PAUSE}">>) = {}


\* the sleeps of the last operation, in order
Sleeps == SelectSeq(calls, LAMBDA e : e.ev = "sleep")

OpAt(i) ==
    calls[CHOOSE j \in 1..(i - 1) :
            calls[j].ev = "call" /\ \A k \in (j + 1)..(i - 1) : calls[k].ev # "call"].name

Toggles(lo, hi) == {i \in lo..hi : calls[i].ev = "chan"}

\* the completed calls: where each was entered and where it returned
Completed ==
    {<<i, j>> \in (1..Len(calls)) \X (1..Len(calls)) :
        /\ i < j /\ calls[i].ev = "call"
        /\ calls[j].ev = "ret" /\ calls[j].name = calls[i].name
        /\ \A k \in (i + 1)..(j - 1) : calls[k].ev # "call"}

\* is_playing() as the call entered at i saw it
SawPlaying(i, j) ==
    \E k \in (i + 1)..(j - 1) : calls[k].ev = "ret" /\ calls[k].name = "is_playing"
                                /\ calls[k].n = 1

\* between i and j the player was left alone and every read of the title worked
Undisturbed(i, j) ==
    \A k \in i..j : calls[k].ev # "ext" /\ "failed" \notin calls[k].mods

\* C23: on Backend B play() sends the media toggle once when its is_playing()
\* was false and not at all when it was true; pause() sends it once when its
\* is_playing() was true and not at all otherwise; play_pause() always sends it
\* once.  Hence, the player flipping on each toggle, its title being read and
\* nothing else changing it: play(); play() ends playing and pause(); pause()
\* ends not playing, each pair having sent at most one toggle.
C23_PlayPauseIdempotent ==
    /\ \A c \in Completed :
        Cardinality(Toggles(c[1], c[2])) =
            CASE calls[c[1]].name = "play" -> IF SawPlaying(c[1], c[2]) THEN 0 ELSE 1
              [] calls[c[1]].name = "pause" -> IF SawPlaying(c[1], c[2]) THEN 1 ELSE 0
              [] OTHER -> 1
    /\ \A c \in Completed, d \in Completed :
        (/\ c[2] + 1 = d[1] /\ d[2] = Len(calls)
         /\ calls[c[1]].name = calls[d[1]].name
         /\ calls[c[1]].name \in {"play", "pause"}
         /\ Undisturbed(c[1], d[2])) =>
            /\ Playing(app) <=> calls[c[1]].name = "play"
            /\ Cardinality(Toggles(c[1], d[2])) <= 1

C23_Witness ==
    /\ frame.pc = "ready" /\ frame.done = 2 /\ frame.ext = 0
    /\ Len(calls) = 7 /\ calls[1].name = "play" /\ calls[5].name = "play"
    /\ calls[3].ev = "chan" /\ calls[6].mods = {}
    /\ Playing(app)

\* C30: whatever the user or the application does to the player between the
\* is_playing() check and the key send, play() never delivers the toggle to a
\* player that is playing when it arrives, and pause() never delivers it to a
\* player that is not playing.
C30_NeverTogglesTheWrongWay ==
    \A i \in 1..Len(calls) :
        calls[i].ev = "chan" =>
            /\ OpAt(i) = "play" => calls[i].n = 0
            /\ OpAt(i) = "pause" => calls[i].n = 1


\* the step is a call of set_ui_delay, on the controller or through the facade
SetUiDelayStep ==
    /\ result = Idle /\ result' # Idle
    /\ \/ result'.op = "set_ui_delay"
       \/ result'.op = "facade" /\ result'.args.request.name = "set_ui_delay"

UiDelayArgument ==
    IF result'.op = "set_ui_delay" THEN result'.args.delay ELSE result'.args.request.n

\* the last wait of the operation that just ended
LastSleep == Sleeps[Len(Sleeps)]

\* the operations that end with a wait of one UI-delay interval used the value
\* the controller holds
WaitsUseCurrentUiDelay ==
    (ctl # NoObj /\ result.err = NoErr /\ ~result.failed) =>
        /\ result.op \in {"bring_to_front", "open_search", "select_first_search_result"}
            => LastSleep = Slept(ctl._ui_delay)
        /\ result.op = "_type_text"
            => LastSleep = Slept(Len(result.args.text) * DELAY_PER_CHAR + ctl._ui_delay)

\* C24: a controller starts with the default UI delay of 0.5 s; after that the
\* UI delay is the only field of it that changes, only a call of set_ui_delay
\* changes it, and it then equals that call's argument; no other operation
\* changes the UI delay or the debug flag; the waits of one UI-delay interval
\* last the value held at the time they run.
C24_OnlySetUiDelayChangesController ==
    /\ [][/\ (ctl = NoObj /\ ctl' # NoObj) => ctl'._ui_delay = DEFAULT_UI_DELAY
          /\ (ctl # NoObj /\ ctl' # NoObj) =>
                /\ DOMAIN ctl' = DOMAIN ctl
                /\ \A a \in DOMAIN ctl \ {"_ui_delay"} : ctl'[a] = ctl[a]
                /\ ctl'._ui_delay =
                     IF SetUiDelayStep THEN UiDelayArgument ELSE ctl._ui_delay]_vars
    /\ []WaitsUseCurrentUiDelay

C24_Witness ==
    /\ ctl # NoObj /\ ctl._ui_delay = 0 /\ ctl.debug
    /\ result.op = "open_search" /\ result.err = NoErr /\ ~result.failed
    /\ LastSleep = Slept(0)


QueryNames ==
    {"is_running", "get_player_state", "is_playing", "get_current_track", "get_volume",
     "get_player_position", "is_shuffling", "is_repeating"}

\* the query that just ended, whether called on the controller or through the facade
QueryEnded ==
    /\ ctl # NoObj
    /\ \/ result.op \in QueryNames
       \/ result.op = "facade" /\ result.args.request.name \in QueryNames

\* a controller of the same class and debug flag on which nothing was ever called
FreshController ==
    IF ctl.cls = MAC_CLASS THEN MacInit(ctl.debug).obj
    ELSE WindowsInit(ctl.debug, TRUE).obj

\* the query of the last facade call, made on the fresh controller in front of
\* the application and channel as they were when the call began
AskedAfresh ==
    Invoke(FreshController, result.args.request, result.args.env, Start(result.before))

\* what the window of the application showed when the call began
ShownState(a) ==
    IF ~a.running \/ a.title = <<>> THEN STOPPED
    ELSE IF a.title \in IDLE_TITLES THEN PAUSED ELSE PLAYING

\* the unabridged claim: every query call reads the channel
C25_EveryQueryReadsTheChannel ==
    QueryEnded => ChanCalls # <<>>

\* C25: what a query returns depends only on the application and the channel
\* at the moment of the call, not on what was called on the controller before:
\* it is what a controller fresh from construction returns there; every query
\* that did not end in the unsupported-operation error read the channel during
\* the call, and on Backend B the player state is the one the window title
\* showed when the call began, whatever was observed earlier.
C25_QueriesHistoryIndependent ==
    QueryEnded =>
        /\ result.err # "NotImplementedError" => ChanCalls # <<>>
        /\ result.op = "facade" =>
            \E fresh \in {AskedAfresh} :
                /\ result.err = fresh.err
                /\ result.val = IF Live(fresh) THEN fresh.val ELSE None
                /\ ChanCalls = SelectSeq(fresh.trace, IsChan)
        /\ (ctl.cls = WIN_CLASS /\ result.op = "get_player_state" /\ ~result.failed)
            => result.val = Str(ShownState(result.before))

C25_Witness ==
    /\ QueryEnded /\ result.op = "facade" /\ ctl.cls = WIN_CLASS
    /\ result.args.request.name = "get_player_state"
    /\ ctl._ui_delay # DEFAULT_UI_DELAY
    /\ result.val = Str(PLAYING)


Procedures ==
    {"open_search", "search", "select_first_search_result", "navigate_to_first_song",
     "play_playlist_by_name", "search_and_play", "toggle_shuffle", "toggle_repeat"}

\* the procedure that just ended, run again from the state it began in with a
\* channel on which no command fails
Unfailing(launchWorks) ==
    LET env == [failAt |-> 0, launchWorks |-> launchWorks, stdout |-> <<>>]
        st == Start(result.before)
        a == result.args
    IN CASE result.op = "open_search" -> open_search(ctl, env, st)
         [] result.op = "search" -> search(ctl, env, st, a.query, a.wait_for_results)
         [] result.op = "select_first_search_result" ->
                select_first_search_result(ctl, env, st)
         [] result.op = "navigate_to_first_song" -> navigate_to_first_song(ctl, env, st)
         [] result.op = "play_playlist_by_name" ->
                play_playlist_by_name(ctl, env, st, a.playlist_name, a.play_first_song,
                                      a.search_delay)
         [] result.op = "search_and_play" -> search_and_play(ctl, env, st, a.query)
         [] result.op = "toggle_shuffle" -> toggle_shuffle(ctl, env, st)
         [] result.op = "toggle_repeat" -> toggle_repeat(ctl, env, st)

IsPrefix(s, t) == Len(s) <= Len(t) /\ \A i \in 1..Len(s) : s[i] = t[i]

\* a command failed on the channel and is_running or the title read turned the
\* failure into an answer
SwallowedFailure == result.failed /\ result.err \notin {"COMError", "AppleScriptError"}

FoundNotRunning ==
    /\ result.op = "main"
    /\ ReturnsOf("is_running") # {}
    /\ \E i \in ReturnsOf("is_running") :
        /\ \A j \in ReturnsOf("is_running") : i <= j
        /\ calls[i].n = 0

\* after its first is_running() returned, the command only printed
OnlyPrintedAfterwards ==
    \A i \in ReturnsOf("is_running") : \A k \in (i + 1)..Len(calls) :
        calls[k].ev = "print"

\* C27: cmd_play, cmd_pause, cmd_next, cmd_prev and cmd_volume return 1 when
\* is_running() is false and call nothing else on the facade: no playback or
\* volume command, no query, no launch; cmd_status returns 0 then, and asks for
\* neither the state nor the track; launch() is called by cmd_play_playlist
\* and cmd_search alone.
C27_NothingDoneWhenNotRunning ==
    /\ (FoundNotRunning
        /\ result.args.args.command \in {"play", "pause", "next", "prev", "volume"}) =>
            /\ result.val = Int_(1) /\ result.err = NoErr
            /\ Cardinality(CallsOf("is_running")) = 1
            /\ OnlyPrintedAfterwards
    /\ (FoundNotRunning /\ result.args.args.command = "status") =>
            /\ result.val = Int_(0) /\ result.err = NoErr
            /\ Cardinality(CallsOf("is_running")) = 1
            /\ OnlyPrintedAfterwards
    /\ (result.op = "main" /\ CallsOf("launch") # {}) =>
            result.args.args.command \in {"play-playlist", "search"}

C27_Witness ==
    /\ FoundNotRunning /\ result.args.args.command = "volume"
    /\ result.args.args.level # None
    /\ result.val = Int_(1)
    /\ calls[Len(calls)].ev = "print"


\* the key of the chord the toggle that just ended is to send
ToggleKey == IF result.op = "toggle_shuffle" THEN "s" ELSE "r"

\* the key commands among the channel calls of the last operation
KeyCommands ==
    SelectSeq(ChanCalls, LAMBDA e : e.name \in {"keystroke", "key code", "send_keys"})

\* C28: toggle_shuffle() and toggle_repeat() do bring_to_front and then send one
\* chord, the command modifier with "s" or with "r", and nothing else; they
\* never end in the unsupported-operation error, so on Backend B they succeed
\* when the window is there and the channel works; they never read the shuffle
\* or repeat state.
C28_TogglesAreOneChord ==
    (ctl # NoObj /\ result.op \in {"toggle_shuffle", "toggle_repeat"}) =>
        /\ result.err # "NotImplementedError"
        /\ (ctl.cls = WIN_CLASS /\ result.before.running /\ ~result.failed)
            => result.err = NoErr
        /\ result.err = NoErr =>
            /\ Direct(1, Len(calls) + 1, 1, {}) =
                  <<Called("bring_to_front", <<>>, 0, {}),
                    Called("_keystroke", <<ToggleKey>>, 0, {CommandModifier})>>
            /\ KeyCommands =
                  <<IF ctl.cls = MAC_CLASS
                    THEN Ev("chan", "keystroke", <<ToggleKey>>, 0, {"command"})
                    ELSE Ev("chan", "send_keys", <<"{Ctrl}", ToggleKey>>, 0, {})>>
        /\ \A i \in 1..Len(calls) :
            /\ calls[i].ev = "call" =>
                calls[i].name \in {result.op, "bring_to_front", "_keystroke"}
            /\ calls[i].ev = "chan" =>
                calls[i].name \in {"activate", "control_window", "keystroke", "send_keys"}

C28_Witness ==
    /\ ctl # NoObj /\ ctl.cls = WIN_CLASS
    /\ result.op = "toggle_repeat" /\ result.err = NoErr
    /\ Len(KeyCommands) = 1


MediaKeys == {"{MEDIA_PLAY_PAUSE}", "{MEDIA_NEXT_TRACK}", "{MEDIA_PREV_TRACK}"}

\* position i of the trace is a key sent on Backend B
KeySent(i) == calls[i].ev = "chan" /\ calls[i].name = "send_keys"

IsMediaKey(e) == Len(e.s) = 1 /\ e.s[1] \in MediaKeys

\* the key at position i follows, inside one keyboard primitive, a
\* bring_to_front that found the window and returned
FocusedJustBefore(i) ==
    /\ i > 5
    /\ calls[i - 1] = Ev("ret", "bring_to_front", <<>>, 0, {})
    /\ calls[i - 2] = Slept(ctl._ui_delay)
    /\ calls[i - 3] = Ev("chan", "control_window", <<"executable:Spotify.exe">>, 0, {})
    /\ calls[i - 4] = Called("bring_to_front", <<>>, 0, {})
    /\ calls[i - 5].ev = "call"
    /\ calls[i - 5].name \in {"_keystroke", "_key_code", "_type_text"}

\* C29: on Backend B every key that is not a media key is sent by a keyboard
\* primitive right after that same primitive call focused the window with a
\* bring_to_front that did not raise; a focus step that raises ends the
\* operation with no key sent after it; the media keys of play_pause,
\* next_track and previous_track are sent with no focusing at all.
C29_KeysFollowFocus ==
    (ctl # NoObj /\ ctl.cls = WIN_CLASS /\ result # Idle) =>
        /\ \A i \in 1..Len(calls) :
            (KeySent(i) /\ ~IsMediaKey(calls[i])) => FocusedJustBefore(i)
        /\ \A i \in 1..Len(calls) :
            (calls[i].ev = "chan" /\ calls[i].name = "control_window"
             /\ (i = Len(calls) \/ calls[i + 1].ev # "sleep")
             /\ i > 1 /\ calls[i - 1].name = "bring_to_front") =>
                /\ i = Len(calls) /\ result.err # NoErr
        /\ result.op \in {"play_pause", "next_track", "previous_track"} =>
            /\ \A i \in 1..Len(calls) : calls[i].ev = "chan" =>
                    KeySent(i) /\ IsMediaKey(calls[i])
            /\ CallsOf("bring_to_front") = {}
            /\ result.err = NoErr => Len(ChanCalls) = 1

C29_Witness ==
    /\ ctl # NoObj /\ ctl.cls = WIN_CLASS
    /\ result.op = "search_and_play" /\ result.err = NoErr
    /\ Sent(<<"{MEDIA_PLAY_PAUSE}">>) # {}
    /\ Sent(<<"{DOWN}">>) # {} /\ Sent(<<"{ENTER}">>) # {}
    /\ Sent(result.args.query) # {}

=============================================================================
